---- MODULE Spec2Model ----
(***************************************************************************)
(* A model of the http request dispatcher and of its mocking library       *)
(* (src/src/index.ts, src/src/mock.ts).                                    *)
(*                                                                         *)
(* JavaScript strings (urls, mock keys, bodies, parameters) are sequences  *)
(* of one-character strings, so that split, includes, slice, percent       *)
(* decoding and JSON parsing are computed as the code computes them.       *)
(* The state is the state of the `http` object after mockHttp(http) ran:   *)
(* hasMocks, mockMap, unmockedMap, the onUnmockedRequest observer,         *)
(* requestCatcher and recordQueryParams, the promise chains of the         *)
(* requests in flight, the defaults, job lists and option objects of the   *)
(* request builder, and a log of what the last call of request() or        *)
(* record() did.  JavaScript objects are sequences of                      *)
(* properties in Object.keys order, so that the dumps are compared as the  *)
(* text JSON.stringify produces.                                           *)
(***************************************************************************)
EXTENDS Integers, Sequences, FiniteSets, TLC

(***************************************************************************)
(* Bounds of the model.                                                    *)
(***************************************************************************)
\* at most this many keys are registered in mockMap at any time
MaxKeys == 2
\* at most this many calls of request() in one session
MaxRequests == 1
\* at most this many requests are stored by the default recording
MaxRecords == 2
\* at most this many calls of request() in a session that replays recorded traffic
MaxReplays == 2
\* at most this many requests are recorded in such a session
MaxSessionRecords == 1
\* at most this many jobs in a response pipeline
MaxJobs == 3
\* at most this many requests in flight together
MaxFlights == 2
\* at most this many job lists are created by the builders of pipelines
MaxArrays == 2
\* at most this many jobs in a list made with buildResponsePipeline
MaxBuilderJobs == 2
\* at most this many option objects are written by the caller
MaxOpts == 2
\* at most this many request builders are constructed
MaxBuilt == 2

(***************************************************************************)
(* Strings.                                                                *)
(***************************************************************************)
\* String.prototype.includes for a one-character needle
Includes(s, c) == \E i \in 1..Len(s) : s[i] = c

\* index of the first occurrence of c in s (0 when there is none)
IndexOf(s, c) ==
    IF Includes(s, c)
    THEN CHOOSE i \in 1..Len(s) : s[i] = c /\ \A j \in 1..(i - 1) : s[j] # c
    ELSE 0

\* String.prototype.split for a one-character separator: always at least one part
RECURSIVE Split(_, _)
Split(s, c) ==
    IF ~Includes(s, c) THEN <<s>>
    ELSE LET i == IndexOf(s, c)
         IN  <<SubSeq(s, 1, i - 1)>> \o Split(SubSeq(s, i + 1, Len(s)), c)

\* the text of the JavaScript value undefined, as String(undefined) gives it
UndefinedText == <<"u", "n", "d", "e", "f", "i", "n", "e", "d">>

\* the characters with codes 32..126 (bq stands for the backquote, code 96)
AsciiPrintable ==
    << " ", "!", "\"", "#", "$", "%", "&", "'", "(", ")", "*", "+", ",", "-", ".", "/",
       "0", "1", "2", "3", "4", "5", "6", "7", "8", "9", ":", ";", "<", "=", ">", "?",
       "@", "A", "B", "C", "D", "E", "F", "G", "H", "I", "J", "K", "L", "M", "N", "O",
       "P", "Q", "R", "S", "T", "U", "V", "W", "X", "Y", "Z", "[", "\\", "]", "^", "_",
       "bq", "a", "b", "c", "d", "e", "f", "g", "h", "i", "j", "k", "l", "m", "n", "o",
       "p", "q", "r", "s", "t", "u", "v", "w", "x", "y", "z", "{", "|", "}", "~" >>

\* the characters with codes 0..31 (tab, line feed and carriage return by their
\* escapes, the other control characters in caret notation)
AsciiControl ==
    << "^@", "^A", "^B", "^C", "^D", "^E", "^F", "^G", "^H", "\t", "\n", "^K", "^L", "\r",
       "^N", "^O", "^P", "^Q", "^R", "^S", "^T", "^U", "^V", "^W", "^X", "^Y", "^Z", "^[",
       "^\\", "^]", "^^", "^_" >>

\* the character of an ASCII code 0..127
AsciiChar(code) ==
    IF code < 32 THEN AsciiControl[code + 1]
    ELSE IF code = 127 THEN "^?"
    ELSE AsciiPrintable[code - 31]

HexDigits == <<"0", "1", "2", "3", "4", "5", "6", "7", "8", "9", "A", "B", "C", "D", "E", "F">>
HexLower == <<"0", "1", "2", "3", "4", "5", "6", "7", "8", "9", "a", "b", "c", "d", "e", "f">>

IsHex(c) == \E i \in 1..16 : HexDigits[i] = c \/ HexLower[i] = c

HexVal(c) == (CHOOSE i \in 1..16 : HexDigits[i] = c \/ HexLower[i] = c) - 1

\* what decodeURIComponent throws on a malformed escape
URIError == <<"URIError">>

\* decodeURIComponent: %XY with two hex digits is the byte 16*X+Y; a % that is not
\* followed by two hex digits, and a byte >= 128 that starts no valid UTF-8
\* sequence, throw URIError. (The urls of the model hold no multi-byte UTF-8
\* sequence: every byte >= 128 in them is malformed.)
RECURSIVE decodeURIComponent(_)
decodeURIComponent(s) ==
    IF s = <<>> THEN <<>>
    ELSE IF s[1] # "%"
    THEN LET r == decodeURIComponent(Tail(s))
         IN  IF r = URIError THEN URIError ELSE <<s[1]>> \o r
    ELSE IF Len(s) < 3 \/ ~IsHex(s[2]) \/ ~IsHex(s[3]) THEN URIError
    ELSE LET code == 16 * HexVal(s[2]) + HexVal(s[3])
             r == decodeURIComponent(SubSeq(s, 4, Len(s)))
         IN  IF code >= 128 \/ r = URIError THEN URIError
             ELSE <<AsciiChar(code)>> \o r

(***************************************************************************)
(* JSON values. A JavaScript value is a record [t, v]: t is its type and v *)
(* the characters that identify it; two primitive values are === exactly   *)
(* when their records are equal.                                           *)
(***************************************************************************)
Undefined == [t |-> "undefined", v |-> <<>>]
SyntaxError == [t |-> "SyntaxError", v |-> <<>>]
Str(s) == [t |-> "string", v |-> s]
Num(s) == [t |-> "number", v |-> s]

\* a === b: primitives by value, objects and arrays by reference (two parses
\* never give the same reference)
StrictEquals(a, b) == a = b /\ a.t \notin {"object", "array"}

Digits == {"0", "1", "2", "3", "4", "5", "6", "7", "8", "9"}

JsonWhitespace == {" ", "\t", "\n", "\r"}

\* JSON.parse skips whitespace around the value
RECURSIVE TrimLeft(_)
TrimLeft(s) ==
    IF s # <<>> /\ s[1] \in JsonWhitespace THEN TrimLeft(Tail(s)) ELSE s

RECURSIVE TrimRight(_)
TrimRight(s) ==
    IF s # <<>> /\ s[Len(s)] \in JsonWhitespace
    THEN TrimRight(SubSeq(s, 1, Len(s) - 1)) ELSE s

\* a JSON number without sign, fraction or exponent: 0 | [1-9][0-9]*
IsJsonNumber(s) ==
    /\ s # <<>>
    /\ \A i \in 1..Len(s) : s[i] \in Digits
    /\ (s[1] = "0" => Len(s) = 1)

\* an object or array value: v holds the properties [k, v] in the order of
\* Object.keys (the elements, for an array)
Obj(props) == [t |-> "object", v |-> props]

(***************************************************************************)
(* Properties of an object in the order Object.keys and JSON.stringify     *)
(* enumerate them: the keys that are array indices first, in ascending     *)
(* numeric order, then the other keys in the order of their creation. An   *)
(* object is the sequence of its properties [k, v] in that order.          *)
(***************************************************************************)
\* a canonical numeric string (the model holds none above 2^32 - 2)
IsArrayIndex(k) == IsJsonNumber(k)

RECURSIVE NumVal(_)
NumVal(k) ==
    IF k = <<>> THEN 0
    ELSE 10 * NumVal(SubSeq(k, 1, Len(k) - 1)) + HexVal(k[Len(k)])

HasProperty(props, k) == \E i \in 1..Len(props) : props[i].k = k

\* props[k], of a key that is present
GetProperty(props, k) == props[CHOOSE i \in 1..Len(props) : props[i].k = k].v

\* Object.keys(props)
ObjectKeys(props) == [i \in 1..Len(props) |-> props[i].k]

\* the place a new key takes in the order of the keys
NewKeyPosition(props, k) ==
    IF IsArrayIndex(k)
    THEN 1 + Cardinality({i \in 1..Len(props) :
                             IsArrayIndex(props[i].k) /\ NumVal(props[i].k) < NumVal(k)})
    ELSE Len(props) + 1

InsertProperty(props, p, k, val) ==
    SubSeq(props, 1, p - 1) \o <<[k |-> k, v |-> val]>> \o SubSeq(props, p, Len(props))

\* props[k] = val: a key that is present keeps its place
SetProperty(props, k, val) ==
    IF HasProperty(props, k)
    THEN [i \in 1..Len(props) |-> IF props[i].k = k THEN [k |-> k, v |-> val] ELSE props[i]]
    ELSE InsertProperty(props, NewKeyPosition(props, k), k, val)

(***************************************************************************)
(* JSON.parse.                                                             *)
(***************************************************************************)
\* the character at position i of a text ("" past its end)
CharAt(s, i) == IF i >= 1 /\ i <= Len(s) THEN s[i] ELSE ""

\* a text starts with a word at position i
StartsWith(s, i, word) ==
    i + Len(word) - 1 <= Len(s) /\ SubSeq(s, i, i + Len(word) - 1) = word

RECURSIVE SkipWhitespace(_, _)
SkipWhitespace(s, i) ==
    IF CharAt(s, i) \in JsonWhitespace THEN SkipWhitespace(s, i + 1) ELSE i

\* the result of parsing a value: the value and the position after it
ParseFail == [ok |-> FALSE, val |-> SyntaxError, next |-> 0]
ParseOk(val, next) == [ok |-> TRUE, val |-> val, next |-> next]

\* the two-character escapes of a JSON string and the characters they stand for
SimpleEscapes == {"\"", "\\", "/", "b", "f", "n", "r", "t"}

Unescape(c) ==
    CASE c = "b" -> AsciiChar(8)
      [] c = "f" -> AsciiChar(12)
      [] c = "n" -> "\n"
      [] c = "r" -> "\r"
      [] c = "t" -> "\t"
      [] OTHER -> c

IsControl(c) == \E i \in 1..32 : AsciiControl[i] = c

\* the code of a \uXXXX escape at position i (the position of the backslash)
EscapeCode(s, i) ==
    4096 * HexVal(s[i + 2]) + 256 * HexVal(s[i + 3]) + 16 * HexVal(s[i + 4])
        + HexVal(s[i + 5])

IsUnicodeEscape(s, i) ==
    /\ CharAt(s, i + 1) = "u"
    /\ i + 5 <= Len(s)
    /\ \A j \in (i + 2)..(i + 5) : IsHex(s[j])

\* the characters of a string from position i (after the opening quote) to the
\* closing quote, acc holding those read so far. (The texts of the model hold no
\* \uXXXX escape of a code above 127.)
RECURSIVE ParseString(_, _, _)
ParseString(s, i, acc) ==
    IF i > Len(s) \/ IsControl(s[i]) THEN ParseFail
    ELSE IF s[i] = "\"" THEN ParseOk(Str(acc), i + 1)
    ELSE IF s[i] # "\\" THEN ParseString(s, i + 1, Append(acc, s[i]))
    ELSE IF CharAt(s, i + 1) \in SimpleEscapes
    THEN ParseString(s, i + 2, Append(acc, Unescape(s[i + 1])))
    ELSE IF IsUnicodeEscape(s, i) /\ EscapeCode(s, i) < 128
    THEN ParseString(s, i + 6, Append(acc, AsciiChar(EscapeCode(s, i))))
    ELSE ParseFail

\* the end of the run of digits that starts at position i
RECURSIVE DigitsEnd(_, _)
DigitsEnd(s, i) == IF CharAt(s, i) \in Digits THEN DigitsEnd(s, i + 1) ELSE i

\* a number 0 | [1-9][0-9]* at position i: after a leading 0 the number ends
ParseNumber(s, i) ==
    IF s[i] = "0" THEN ParseOk(Num(<<"0">>), i + 1)
    ELSE ParseOk(Num(SubSeq(s, i, DigitsEnd(s, i) - 1)), DigitsEnd(s, i))

RECURSIVE ParseValue(_, _)
RECURSIVE ParseMembers(_, _, _)
RECURSIVE ParseElements(_, _, _)

\* after the members read so far (props) and a new member k: val, at position i
MemberEnd(s, i, props) ==
    IF CharAt(s, i) = "," THEN ParseMembers(s, SkipWhitespace(s, i + 1), props)
    ELSE IF CharAt(s, i) = "}" THEN ParseOk(Obj(props), i + 1)
    ELSE ParseFail

MemberValue(s, k, val, props) ==
    IF ~val.ok THEN ParseFail
    ELSE MemberEnd(s, SkipWhitespace(s, val.next), SetProperty(props, k, val.val))

MemberKey(s, key, colon, props) ==
    IF ~key.ok \/ CharAt(s, colon) # ":" THEN ParseFail
    ELSE MemberValue(s, key.val.v, ParseValue(s, SkipWhitespace(s, colon + 1)), props)

MemberColon(s, key, props) ==
    IF ~key.ok THEN ParseFail
    ELSE MemberKey(s, key, SkipWhitespace(s, key.next), props)

\* the members of an object from position i, where a key must start
ParseMembers(s, i, props) ==
    IF CharAt(s, i) # "\"" THEN ParseFail
    ELSE MemberColon(s, ParseString(s, i + 1, <<>>), props)

ElementEnd(s, i, elements) ==
    IF CharAt(s, i) = "," THEN ParseElements(s, SkipWhitespace(s, i + 1), elements)
    ELSE IF CharAt(s, i) = "]" THEN ParseOk([t |-> "array", v |-> elements], i + 1)
    ELSE ParseFail

ElementValue(s, val, elements) ==
    IF ~val.ok THEN ParseFail
    ELSE ElementEnd(s, SkipWhitespace(s, val.next), Append(elements, val.val))

\* the elements of an array from position i, where a value must start
ParseElements(s, i, elements) == ElementValue(s, ParseValue(s, i), elements)

AfterBrace(s, i) ==
    IF CharAt(s, i) = "}" THEN ParseOk(Obj(<<>>), i + 1) ELSE ParseMembers(s, i, <<>>)

AfterBracket(s, i) ==
    IF CharAt(s, i) = "]" THEN ParseOk([t |-> "array", v |-> <<>>], i + 1)
    ELSE ParseElements(s, i, <<>>)

\* the JSON value that starts at position i (signs, fractions and exponents are
\* not in the texts the model parses: they read as a SyntaxError)
ParseValue(s, i) ==
    IF CharAt(s, i) = "\"" THEN ParseString(s, i + 1, <<>>)
    ELSE IF CharAt(s, i) \in Digits THEN ParseNumber(s, i)
    ELSE IF CharAt(s, i) = "{" THEN AfterBrace(s, SkipWhitespace(s, i + 1))
    ELSE IF CharAt(s, i) = "[" THEN AfterBracket(s, SkipWhitespace(s, i + 1))
    ELSE IF StartsWith(s, i, <<"t", "r", "u", "e">>)
    THEN ParseOk([t |-> "boolean", v |-> <<"t", "r", "u", "e">>], i + 4)
    ELSE IF StartsWith(s, i, <<"f", "a", "l", "s", "e">>)
    THEN ParseOk([t |-> "boolean", v |-> <<"f", "a", "l", "s", "e">>], i + 5)
    ELSE IF StartsWith(s, i, <<"n", "u", "l", "l">>)
    THEN ParseOk([t |-> "null", v |-> <<>>], i + 4)
    ELSE ParseFail

\* the value is followed by nothing but whitespace
ParsedWhole(s, r) ==
    IF r.ok /\ SkipWhitespace(s, r.next) = Len(s) + 1 THEN r.val ELSE SyntaxError

\* JSON.parse(text): the value, or SyntaxError when it throws
JsonParse(text) == ParsedWhole(text, ParseValue(text, SkipWhitespace(text, 1)))

(***************************************************************************)
(* JSON.stringify(value, null, 4).                                         *)
(***************************************************************************)
\* the code of a character (0..127)
CharCode(c) ==
    IF c = "^?" THEN 127
    ELSE IF IsControl(c) THEN (CHOOSE i \in 1..32 : AsciiControl[i] = c) - 1
    ELSE (CHOOSE i \in 1..95 : AsciiPrintable[i] = c) + 31

\* a character inside the quotes of a JSON string
QuoteChar(c) ==
    CASE c = "\"" -> <<"\\", "\"">>
      [] c = "\\" -> <<"\\", "\\">>
      [] c = "\n" -> <<"\\", "n">>
      [] c = "\r" -> <<"\\", "r">>
      [] c = "\t" -> <<"\\", "t">>
      [] c = AsciiChar(8) -> <<"\\", "b">>
      [] c = AsciiChar(12) -> <<"\\", "f">>
      [] OTHER -> IF IsControl(c)
                  THEN <<"\\", "u", "0", "0", HexLower[(CharCode(c) \div 16) + 1],
                         HexLower[(CharCode(c) % 16) + 1]>>
                  ELSE <<c>>

RECURSIVE QuoteChars(_)
QuoteChars(s) == IF s = <<>> THEN <<>> ELSE QuoteChar(s[1]) \o QuoteChars(Tail(s))

\* a string as JSON text
JsonQuote(s) == <<"\"">> \o QuoteChars(s) \o <<"\"">>

\* the indentation of a line at the given depth
Indent(depth) == [i \in 1..(4 * depth) |-> " "]

RECURSIVE JsonStringify(_, _)
RECURSIVE StringifyMembers(_, _, _)

\* the members of an object from the i-th on, one per line
StringifyMembers(props, i, depth) ==
    Indent(depth) \o JsonQuote(props[i].k) \o <<":", " ">>
        \o JsonStringify(props[i].v, depth)
        \o (IF i < Len(props)
            THEN <<",", "\n">> \o StringifyMembers(props, i + 1, depth)
            ELSE <<"\n">>)

\* the text of a value that stands at the given depth (strings and objects, the
\* values a traffic map holds; a number or a boolean by its text)
JsonStringify(val, depth) ==
    IF val.t = "string" THEN JsonQuote(val.v)
    ELSE IF val.t = "null" THEN <<"n", "u", "l", "l">>
    ELSE IF val.t # "object" THEN val.v
    ELSE IF val.v = <<>> THEN <<"{", "}">>
    ELSE <<"{", "\n">> \o StringifyMembers(val.v, 1, depth + 1) \o Indent(depth) \o <<"}">>

RECURSIVE JsonCompact(_)
RECURSIVE CompactMembers(_, _)

CompactMembers(props, i) ==
    JsonQuote(props[i].k) \o <<":">> \o JsonCompact(props[i].v)
        \o (IF i < Len(props) THEN <<",">> \o CompactMembers(props, i + 1) ELSE <<>>)

\* JSON.stringify(value), without indentation
JsonCompact(val) ==
    IF val.t = "string" THEN JsonQuote(val.v)
    ELSE IF val.t = "null" THEN <<"n", "u", "l", "l">>
    ELSE IF val.t # "object" THEN val.v
    ELSE IF val.v = <<>> THEN <<"{", "}">>
    ELSE <<"{">> \o CompactMembers(val.v, 1) \o <<"}">>

\* what parseParam and getQueryParams leave the dispatch with when decoding throws
Thrown == [t |-> "URIError", v |-> <<>>]

\* what parseParam would do if it kept the decoded string without JSON.parse
parseParam_NoJson(value) ==
    LET param == decodeURIComponent(value)
    IN  IF param = URIError THEN Thrown ELSE Str(param)

\* parseParam (mock.ts): percent-decode (outside the try), then JSON.parse inside
\* a try whose catch keeps the decoded string
parseParam(value) ==
    LET param == decodeURIComponent(value)
    IN  IF param = URIError THEN Thrown
        ELSE LET parsed == JsonParse(param)
             IN  IF parsed = SyntaxError THEN Str(param) ELSE parsed

(***************************************************************************)
(* Objects used as maps: a function from property names to values. A name  *)
(* that is absent reads as undefined.                                      *)
(***************************************************************************)
EmptyObject == <<>>

Has(obj, k) == k \in DOMAIN obj

Put(obj, k, val) == [n \in (DOMAIN obj) \cup {k} |-> IF n = k THEN val ELSE obj[n]]

Get(obj, k) == IF Has(obj, k) THEN obj[k] ELSE Undefined

\* the JavaScript value undefined where a string is expected (an absent body)
NoValue == <<"undefined">>

\* String(x) of a string or undefined, as a property name
PropertyName(x) == IF x = NoValue THEN UndefinedText ELSE x

\* what getQueryParams leaves the dispatch with when decodeURIComponent throws
ParamsError == URIError :> Thrown

\* the loop of getQueryParams over vars, queryParams being the object built so far
RECURSIVE QueryFold(_, _)
QueryFold(vars, queryParams) ==
    IF vars = <<>> THEN queryParams
    ELSE LET kv == Split(vars[1], "=")
             key == kv[1]
         IN  IF key = <<>> THEN QueryFold(Tail(vars), queryParams)
             ELSE LET name == decodeURIComponent(key)
                      val == parseParam(IF Len(kv) >= 2 THEN kv[2] ELSE UndefinedText)
                  IN  IF name = URIError \/ val = Thrown THEN ParamsError
                      ELSE QueryFold(Tail(vars), Put(queryParams, name, val))

\* getQueryParams (mock.ts): the text between the first and the second "?",
\* split on "&" and then on "="
getQueryParams(url) ==
    LET parts == Split(url, "?")
        query == IF Len(parts) >= 2 THEN parts[2] ELSE <<>>
        vars == IF query # <<>> THEN Split(query, "&") ELSE <<>>
    IN  QueryFold(vars, EmptyObject)

(***************************************************************************)
(* The state of the http object.                                           *)
(***************************************************************************)
VARIABLES
    hasMocks,           \* http.hasMocks
    mockMap,            \* http.mockMap: per method, the keys in the order Object.keys
                        \* gives them (first registration), each with its handler
    unmockedMap,        \* http.unmockedMap
    onUnmockedRequest,  \* whether http.onUnmockedRequest is set
    last,               \* what the last call of request() did (cleared by the next
                        \* operation on the http object)
    nreq,               \* calls of request() so far
    requestCatcher,     \* http.requestCatcher
    recordQueryParams,  \* http.recordQueryParams
    requestMap,         \* the request map the handlers registered by
                        \* http.mock(requestMap) close over
    recorded,           \* the requests record() stored by default, in order
    unmockedLog,        \* the requests the unmatched handling stored, in order
    flights,            \* the request promises request() returned, in the order of
                        \* the calls, each with the stages of its chain that ran
    client              \* the objects of index.ts that are shared by reference: the
                        \* defaults, the job lists, the option objects, the requests

vars == <<hasMocks, mockMap, unmockedMap, onUnmockedRequest, last, nreq,
          requestCatcher, recordQueryParams, requestMap, recorded, unmockedLog,
          flights, client>>

\* the state of the recorder and of the handlers made from a request map
recorderVars == <<requestCatcher, recordQueryParams, requestMap, recorded>>

Methods == {"delete", "get", "post", "put"}

\* String.prototype.toLowerCase on the method names the model passes
ToLowerCase(m) ==
    CASE m \in {"GET", "Get", "get"} -> "get"
      [] m \in {"POST", "Post", "post"} -> "post"
      [] m \in {"PUT", "Put", "put"} -> "put"
      [] m \in {"DELETE", "Delete", "delete"} -> "delete"

\* the map { delete: {}, get: {}, post: {}, put: {} }
EmptyMap == [m \in Methods |-> EmptyObject]

\* mockMap after clearMocks: no key under any method
EmptyMockMap == [m \in Methods |-> <<>>]

\* http.mockMap[method][url]: the handler stored under the key, NoHandler
\* (undefined) when the key is not registered
NoHandler == "undefined"

HasKey(entries, url) == \E i \in 1..Len(entries) : entries[i].url = url

HandlerOf(entries, url) ==
    IF HasKey(entries, url)
    THEN entries[CHOOSE i \in 1..Len(entries) : entries[i].url = url].handler
    ELSE NoHandler

\* http.mockMap[method][url] = handler: a new key goes last in the order of
\* Object.keys, an existing key keeps its place
SetHandler(entries, url, handler) ==
    IF HasKey(entries, url)
    THEN [i \in 1..Len(entries) |->
            IF entries[i].url = url THEN [url |-> url, handler |-> handler]
            ELSE entries[i]]
    ELSE Append(entries, [url |-> url, handler |-> handler])

\* the number of keys registered, over all methods
RECURSIVE SumLen(_, _)
SumLen(map, ms) ==
    IF ms = {} THEN 0
    ELSE LET m == CHOOSE x \in ms : TRUE
         IN  Len(map[m]) + SumLen(map, ms \ {m})

KeyCount == SumLen(mockMap, Methods)

(***************************************************************************)
(* Response markers [status, headers, body] and their resolution. The      *)
(* headers are never read. What a handler or the observer returns is a     *)
(* marker, or nothing; the observer may also throw.                        *)
(***************************************************************************)
Marker(status, body) == [status |-> status, body |-> body]

\* a handler or observer returning undefined
Nothing == [status |-> -1, body |-> NoValue]
\* the observer throwing
Throws == [status |-> -2, body |-> NoValue]

OK == <<"O", "K">>

StatusName == <<"s", "t", "a", "t", "u", "s">>

\* the decimal digits of a natural number, and the number n as a value
RECURSIVE NatDigits(_)
NatDigits(n) ==
    IF n < 10 THEN <<<<"0", "1", "2", "3", "4", "5", "6", "7", "8", "9">>[n + 1]>>
    ELSE NatDigits(n \div 10) \o NatDigits(n % 10)

NumberOf(n) == Num(IF n < 0 THEN <<"-">> \o NatDigits(-n) ELSE NatDigits(n))

\* the object { status: response[0] }
StatusObject(status) == Obj(<<[k |-> StatusName, v |-> NumberOf(status)]>>)

\* what promiseMockedResponse would do if it decoded the body whatever the status
promiseMockedResponse_AnyStatus(response) ==
    IF response.body # NoValue /\ response.body # <<>> /\ response.body # OK
    THEN LET json == JsonParse(response.body)
         IN  IF json = SyntaxError
             THEN [ret |-> "throw", value |-> SyntaxError, status |-> 0]
             ELSE [ret |-> "promise", value |-> json, status |-> 0]
    ELSE [ret |-> "promise", value |-> Undefined, status |-> 0]

\* promiseMockedResponse (mock.ts): ret is "promise" with the value the promise
\* is fulfilled with (status: the status of { status }, 0 otherwise), or "throw"
\* when JSON.parse throws
promiseMockedResponse(response) ==
    IF response.status = 200
    THEN IF response.body # NoValue /\ response.body # <<>> /\ response.body # OK
         THEN LET json == JsonParse(response.body)
              IN  IF json = SyntaxError
                  THEN [ret |-> "throw", value |-> SyntaxError, status |-> 0]
                  ELSE [ret |-> "promise", value |-> json, status |-> 0]
         ELSE [ret |-> "promise", value |-> Undefined, status |-> 0]
    ELSE [ret |-> "promise", value |-> StatusObject(response.status),
          status |-> response.status]

(***************************************************************************)
(* tryMocked (mock.ts): the exact lookup, the pattern scan, the unmatched   *)
(* handling.                                                               *)
(***************************************************************************)
\* what SameLength would do if the scan skipped the test of the lengths
SameLength_Skipped(mockUrlParts, urlParts) == TRUE

\* "Differing lengths won't match": the test that lets the scan look at a key
SameLength(mockUrlParts, urlParts) == Len(mockUrlParts) = Len(urlParts)

\* whether the segment of a key is a parameter: mockUrlParts[j][0] === ':'
IsParamPart(part) == part # <<>> /\ part[1] = ":"

\* the inner loop of the scan, from segment j on (1-based), params being the
\* object the whole scan shares. threw names what was thrown: URIError by
\* parseParam, TypeError by mockUrlParts[j][0] past the end of the key (which the
\* length test excludes).
RECURSIVE MatchParts(_, _, _, _)
MatchParts(j, urlParts, mockUrlParts, params) ==
    IF j > Len(urlParts)
    THEN [noMatch |-> FALSE, params |-> params, threw |-> ""]
    ELSE IF j > Len(mockUrlParts)
    THEN [noMatch |-> TRUE, params |-> params, threw |-> "TypeError"]
    ELSE IF urlParts[j] # mockUrlParts[j] /\ ~IsParamPart(mockUrlParts[j])
    THEN [noMatch |-> TRUE, params |-> params, threw |-> ""]
    ELSE IF IsParamPart(mockUrlParts[j])
    THEN LET val == parseParam(urlParts[j])
         IN  IF val = Thrown
             THEN [noMatch |-> TRUE, params |-> params, threw |-> "URIError"]
             ELSE MatchParts(j + 1, urlParts, mockUrlParts,
                             Put(params, Tail(mockUrlParts[j]), val))
    ELSE MatchParts(j + 1, urlParts, mockUrlParts, params)

\* "Match query params if mock url included any for matching": some parameter
\* of the key differs from params[param]
QueryMismatch(mockQueryParams, params) ==
    \E param \in DOMAIN mockQueryParams :
        ~StrictEquals(mockQueryParams[param], Get(params, param))

\* the outer loop of the scan, from key i on: found is the index of the key whose
\* handler is invoked (0: none), params the object as the scan left it, scanned
\* the keys the loop looked at
RECURSIVE ScanKeys(_, _, _, _, _)
ScanKeys(entries, i, urlParts, params, scanned) ==
    IF i > Len(entries)
    THEN [found |-> 0, params |-> params, scanned |-> scanned, threw |-> ""]
    ELSE LET mockUrl == entries[i].url
             seen == Append(scanned, mockUrl)
             mockUrlParts == Split(Split(mockUrl, "?")[1], "/")
         IN  IF ~Includes(mockUrl, ":")
             THEN ScanKeys(entries, i + 1, urlParts, params, seen)
             ELSE IF ~SameLength(mockUrlParts, urlParts)
             THEN ScanKeys(entries, i + 1, urlParts, params, seen)
             ELSE LET mockQueryParams == getQueryParams(mockUrl)
                  IN  IF mockQueryParams = ParamsError
                      THEN [found |-> 0, params |-> params, scanned |-> seen,
                            threw |-> "URIError"]
                      ELSE IF QueryMismatch(mockQueryParams, params)
                      THEN ScanKeys(entries, i + 1, urlParts, params, seen)
                      ELSE LET r == MatchParts(1, urlParts, mockUrlParts, params)
                           IN  IF r.threw # ""
                               THEN [found |-> 0, params |-> r.params,
                                     scanned |-> seen, threw |-> r.threw]
                               ELSE IF r.noMatch
                               THEN ScanKeys(entries, i + 1, urlParts, r.params, seen)
                               ELSE [found |-> i, params |-> r.params,
                                     scanned |-> seen, threw |-> ""]

\* the call handler({ params, requestBody: opts.body, url }), as the log keeps it:
\* via is how the handler was found, key the key it is stored under
HandlerCall(via, key, handler, params, body, url) ==
    [via |-> via, key |-> key, handler |-> handler, params |-> params,
     requestBody |-> body, url |-> url]

\* what tryMocked did: ret is "undefined" (nothing returned: request() goes on to
\* fetch), "promise" (fulfilled with value) or "throw"
Outcome(ret, value, status, calls, scanned, observed, unmocked) ==
    [ret |-> ret, value |-> value, status |-> status, calls |-> calls,
     scanned |-> scanned, observed |-> observed, unmocked |-> unmocked]

\* return http.promiseMockedResponse(response), p being what it gives
Resolved(p, calls, scanned, observed, unmocked) ==
    Outcome(p.ret, p.value, p.status, calls, scanned, observed, unmocked)

\* what RecordUnmocked would do if it kept only the last unmatched request
RecordUnmocked_KeepsLast(map, method, url, body) ==
    IF method \in {"post", "put"}
    THEN [[m \in DOMAIN map |-> EmptyObject] EXCEPT ![method] =
            SetProperty(EmptyObject, url,
                Obj(SetProperty(EmptyObject, PropertyName(body), Str(<<>>))))]
    ELSE [[m \in DOMAIN map |-> EmptyObject] EXCEPT ![method] =
            SetProperty(EmptyObject, url, Str(IF body = NoValue THEN <<>> ELSE body))]

\* the assignment to http.unmockedMap in the unmatched handling
RecordUnmocked(map, method, url, body) ==
    IF method \in {"post", "put"}
    THEN [map EXCEPT ![method] =
            SetProperty(@, url,
                Obj(SetProperty(IF HasProperty(@, url) THEN GetProperty(@, url).v
                                ELSE EmptyObject,
                                PropertyName(body), Str(<<>>))))]
    ELSE [map EXCEPT ![method] =
            SetProperty(@, url, Str(IF body = NoValue THEN <<>> ELSE body))]

\* what Observe would do if an observer that throws were treated as one that
\* returns nothing
Observe_SwallowsThrow(map, observed, calls, scanned, oret) ==
    IF oret = Throws \/ oret = Nothing
    THEN Outcome("undefined", Undefined, 0, calls, scanned, observed, map)
    ELSE Resolved(promiseMockedResponse(oret), calls, scanned, observed, map)

\* the call of the observer and what follows it, map being http.unmockedMap after
\* the assignment; oret is what the observer returns (or Throws)
Observe(map, observed, calls, scanned, oret) ==
    IF oret = Throws
    THEN Outcome("throw", Undefined, 0, calls, scanned, observed, map)
    ELSE IF oret = Nothing
    THEN Outcome("undefined", Undefined, 0, calls, scanned, observed, map)
    ELSE Resolved(promiseMockedResponse(oret), calls, scanned, observed, map)

\* the unmatched handling, reached when no handler produced a response
Unmatched(method, url, body, calls, scanned, oret) ==
    IF onUnmockedRequest
    THEN Observe(RecordUnmocked(unmockedMap, method, url, body),
                 <<[method |-> method, url |-> url, body |-> body]>>,
                 calls, scanned, oret)
    ELSE Outcome("undefined", Undefined, 0, calls, scanned, <<>>, unmockedMap)

\* let response = handler({...}); if (response) return promiseMockedResponse(...):
\* hret is what the handler returns; a handler that returns nothing leaves the
\* request to the unmatched handling
Invoke(method, url, body, calls, scanned, hret, oret) ==
    IF hret # Nothing
    THEN Resolved(promiseMockedResponse(hret), calls, scanned, <<>>, unmockedMap)
    ELSE Unmatched(method, url, body, calls, scanned, oret)

\* the handlers http.mock(requestMap) registers: closures over requestMap and
\* the url they are registered under
MapHandler == "requestMap"

\* http.mockResponse(status, body), without the headers
mockResponse(status, body) ==
    Marker(status, IF body.t = "string" THEN body.v ELSE JsonCompact(body))

\* what the handler http.mock(requestMap) registered under url returns: for get
\* and delete the response of the url, for post and put the response
\* requestMap[method][url][requestBody], or nothing when there is none
MapHandlerReturn(method, url, requestBody) ==
    IF method \in {"get", "delete"}
    THEN mockResponse(200, GetProperty(requestMap[method], url))
    ELSE IF HasProperty(GetProperty(requestMap[method], url).v, PropertyName(requestBody))
    THEN mockResponse(200, GetProperty(GetProperty(requestMap[method], url).v,
                                       PropertyName(requestBody)))
    ELSE Nothing

\* what the handler stored under key returns when it is invoked: hret for a
\* handler passed to http.mock(method, url, handler)
HandlerReturn(handler, method, key, requestBody, hret) ==
    IF handler = MapHandler THEN MapHandlerReturn(method, key, requestBody) ELSE hret

\* what ExactKey would be if the url without its query string were looked up first
ExactKey_BaseFirst(entries, url) ==
    IF HasKey(entries, Split(url, "?")[1]) THEN Split(url, "?")[1] ELSE url

\* the key of the exact lookup http.mockMap[method][url] ||
\* http.mockMap[method][urlNoParams]
ExactKey(entries, url) ==
    IF HasKey(entries, url) THEN url ELSE Split(url, "?")[1]

\* the else branch of tryMocked: scan is what the loop over the keys gave
PatternBranch(method, url, body, entries, scan, hret, oret) ==
    IF scan.threw # ""
    THEN Outcome("throw", [t |-> scan.threw, v |-> <<>>], 0, <<>>, scan.scanned, <<>>,
                 unmockedMap)
    ELSE IF scan.found = 0
    THEN Unmatched(method, url, body, <<>>, scan.scanned, oret)
    ELSE Invoke(method, url, body,
                <<HandlerCall("pattern", entries[scan.found].url,
                              entries[scan.found].handler, scan.params, body, url)>>,
                scan.scanned,
                HandlerReturn(entries[scan.found].handler, method,
                              entries[scan.found].url, body, hret),
                oret)

\* what Lookup would do if a declined exact handler let the search continue with
\* the pattern keys
Lookup_KeepsSearching(method, url, body, params, entries, key, hret, oret) ==
    IF params = ParamsError
    THEN Outcome("throw", Thrown, 0, <<>>, <<>>, <<>>, unmockedMap)
    ELSE IF HandlerOf(entries, key) # NoHandler /\ hret # Nothing
    THEN Invoke(method, url, body,
                <<HandlerCall("exact", key, HandlerOf(entries, key), params, body, url)>>,
                <<>>, hret, oret)
    ELSE [PatternBranch(method, url, body, entries,
                        ScanKeys(entries, 1, Split(Split(url, "?")[1], "/"), params,
                                 <<>>),
                        hret, oret)
          EXCEPT !.calls =
             IF HandlerOf(entries, key) # NoHandler
             THEN <<HandlerCall("exact", key, HandlerOf(entries, key), params, body,
                                url)>> \o @
             ELSE @]

\* tryMocked once hasMocks is known to be set: params is getQueryParams(url),
\* entries http.mockMap[method], key the key of the exact lookup
Lookup(method, url, body, params, entries, key, hret, oret) ==
    IF params = ParamsError
    THEN Outcome("throw", Thrown, 0, <<>>, <<>>, <<>>, unmockedMap)
    ELSE IF HandlerOf(entries, key) # NoHandler
    THEN Invoke(method, url, body,
                <<HandlerCall("exact", key, HandlerOf(entries, key), params, body, url)>>,
                <<>>, HandlerReturn(HandlerOf(entries, key), method, key, body, hret),
                oret)
    ELSE PatternBranch(method, url, body, entries,
                       ScanKeys(entries, 1, Split(Split(url, "?")[1], "/"), params, <<>>),
                       hret, oret)

\* (opts.method || 'get').toLowerCase()
MethodOf(opts) == ToLowerCase(IF opts.method = "" THEN "get" ELSE opts.method)

\* what tryMocked would do without the test of http.hasMocks
tryMocked_NoGuard(url, opts, hret, oret) ==
    Lookup(MethodOf(opts), url, opts.body, getQueryParams(url),
           mockMap[MethodOf(opts)], ExactKey(mockMap[MethodOf(opts)], url),
           hret, oret)

\* tryMocked(url, opts): hret is what the invoked handler returns, oret what the
\* observer returns
tryMocked(url, opts, hret, oret) ==
    IF ~hasMocks
    THEN Outcome("undefined", Undefined, 0, <<>>, <<>>, <<>>, unmockedMap)
    ELSE Lookup(MethodOf(opts), url, opts.body, getQueryParams(url),
                mockMap[MethodOf(opts)], ExactKey(mockMap[MethodOf(opts)], url),
                hret, oret)

(***************************************************************************)
(* request() (index.ts), up to the choice between the mock and fetch.      *)
(***************************************************************************)
\* (http.tryMocked && http.tryMocked(this.url, this.opts)) || fetch(this.url,
\* this.opts), with the mocking library installed: fetch is called exactly when
\* tryMocked returns nothing. mocked is what tryMocked did.
FetchCalls(mocked) == IF mocked.ret = "undefined" THEN 1 ELSE 0

(***************************************************************************)
(* The traffic recorder (mock.ts): record, dumpRequestMap,                 *)
(* dumpUnmockedRequestMap, and http.mock(requestMap). A traffic map holds, *)
(* for each method, the properties of its object url -> response.          *)
(***************************************************************************)
\* a sorts before b in Array.prototype.sort without a comparator: the order of
\* the code units
RECURSIVE StringLess(_, _)
StringLess(a, b) ==
    IF b = <<>> THEN FALSE
    ELSE IF a = <<>> THEN TRUE
    ELSE IF a[1] # b[1] THEN CharCode(a[1]) < CharCode(b[1])
    ELSE StringLess(Tail(a), Tail(b))

\* keys.sort(), of the keys of an object (no two are equal)
SortKeys(keys) ==
    [i \in 1..Len(keys) |->
        keys[CHOOSE n \in 1..Len(keys) :
                Cardinality({j \in 1..Len(keys) : StringLess(keys[j], keys[n])}) = i - 1]]

\* keys.forEach(key => { target[key] = props[key] })
RECURSIVE CopyKeys(_, _, _)
CopyKeys(props, keys, target) ==
    IF keys = <<>> THEN target
    ELSE CopyKeys(props, Tail(keys),
                  SetProperty(target, keys[1], GetProperty(props, keys[1])))

\* the copy of an object whose keys are added in sorted order; the values are
\* the same objects
KeySorted(props) == CopyKeys(props, SortKeys(ObjectKeys(props)), EmptyObject)

\* the same, each value being copied with its own keys in sorted order
RECURSIVE CopyKeysNested(_, _, _)
CopyKeysNested(props, keys, target) ==
    IF keys = <<>> THEN target
    ELSE CopyKeysNested(props, Tail(keys),
                        SetProperty(target, keys[1],
                                    Obj(KeySorted(GetProperty(props, keys[1]).v))))

KeySortedNested(props) == CopyKeysNested(props, SortKeys(ObjectKeys(props)), EmptyObject)

\* the name of a method as the text of a key
MethodKey(m) ==
    CASE m = "delete" -> <<"d", "e", "l", "e", "t", "e">>
      [] m = "get" -> <<"g", "e", "t">>
      [] m = "post" -> <<"p", "o", "s", "t">>
      [] m = "put" -> <<"p", "u", "t">>

\* the object the two dumps build: the sections delete, get, post, put, the urls
\* of each sorted; the bodies under a url are sorted in the post section only
KeySortedMap(map) ==
    Obj(<<[k |-> MethodKey("delete"), v |-> Obj(KeySorted(map["delete"]))],
          [k |-> MethodKey("get"), v |-> Obj(KeySorted(map["get"]))],
          [k |-> MethodKey("post"), v |-> Obj(KeySortedNested(map["post"]))],
          [k |-> MethodKey("put"), v |-> Obj(KeySorted(map["put"]))]>>)

\* http.dumpRequestMap(), of http.requestCatcher
dumpRequestMap(catcher) == JsonStringify(KeySortedMap(catcher), 0)

\* http.dumpUnmockedRequestMap(), of http.unmockedMap
dumpUnmockedRequestMap(map) == JsonStringify(KeySortedMap(map), 0)

\* what the default recording would do if it replaced the object of a url
DefaultRecord_Overwrites(catcher, method, url, body) ==
    IF method \in {"post", "put"}
    THEN [catcher EXCEPT ![method] =
            SetProperty(@, url, Obj(SetProperty(EmptyObject, PropertyName(body), Str(OK))))]
    ELSE [catcher EXCEPT ![method] = SetProperty(@, url, Str(OK))]

\* the default recording of record: the entry of (method, url, body)
DefaultRecord(catcher, method, url, body) ==
    IF method \in {"post", "put"}
    THEN [catcher EXCEPT ![method] =
            SetProperty(@, url,
                Obj(SetProperty(IF HasProperty(@, url) THEN GetProperty(@, url).v
                                ELSE EmptyObject,
                                PropertyName(body), Str(OK))))]
    ELSE [catcher EXCEPT ![method] = SetProperty(@, url, Str(OK))]

\* what RecordedUrl would be if the query string were always kept
RecordedUrl_Full(url) == url

\* the url record stores a request under
RecordedUrl(url) == IF recordQueryParams THEN url ELSE Split(url, "?")[1]

\* http.onRecordResponse when record runs: absent, or a function that returns
\* true ("handled") or a falsy value ("declined")
RecordObservers == {"absent", "handled", "declined"}

\* what record would do if it ignored what the observer returns
record_IgnoresObserver(catcher, url, opts, observer, response) ==
    DefaultRecord(catcher, MethodOf(opts), RecordedUrl(url), opts.body)

\* what record would do if the default recording stored the response
record_StoresResponse(catcher, url, opts, observer, response) ==
    IF observer = "handled" THEN catcher
    ELSE IF MethodOf(opts) \in {"post", "put"}
    THEN [catcher EXCEPT ![MethodOf(opts)] =
            SetProperty(@, RecordedUrl(url),
                Obj(SetProperty(IF HasProperty(@, RecordedUrl(url))
                                THEN GetProperty(@, RecordedUrl(url)).v
                                ELSE EmptyObject,
                                PropertyName(opts.body), response)))]
    ELSE [catcher EXCEPT ![MethodOf(opts)] = SetProperty(@, RecordedUrl(url), response)]

\* http.record(response), bound to the request (url, opts): the new
\* http.requestCatcher. The response goes to the observer and is returned; the
\* default recording does not read it.
record(catcher, url, opts, observer, response) ==
    IF observer = "handled" THEN catcher
    ELSE DefaultRecord(catcher, MethodOf(opts), RecordedUrl(url), opts.body)

\* a parsed request map as a traffic map: its four sections
RequestMapOf(parsed) == [m \in Methods |-> GetProperty(parsed.v, MethodKey(m)).v]

\* Object.keys(section).forEach(url => http.mock(method, url, handler))
RECURSIVE MockKeys(_, _)
MockKeys(entries, urls) ==
    IF urls = <<>> THEN entries
    ELSE MockKeys(SetHandler(entries, urls[1], MapHandler), Tail(urls))

\* http.mockRequestMap(map): the new http.mockMap
mockRequestMap(map) == [m \in Methods |-> MockKeys(mockMap[m], ObjectKeys(map[m]))]

\* whether a traffic map holds a url
HasUrls(map) == \E m \in Methods : map[m] # EmptyObject

(***************************************************************************)
(* The inputs of the model.                                                *)
(***************************************************************************)
\* the keys mock() registers
K_p8 == <<"/", "p", "/", "8">>
K_pI == <<"/", "p", "/", ":", "i">>
K_Tz == <<"/", ":", "t", "/", "z">>
K_pIq == <<"/", "p", "/", ":", "i", "?", "t", "=", "p">>
K_pIx == <<"/", "p", "/", ":", "i", "/", "x">>
K_pq == <<"/", "p", "?", "t", "=", "%">>
K_p8c == <<"/", "p", "/", "8", "?", "t", "=", ":">>

MockUrls == {K_p8, K_pI, K_Tz, K_pIq, K_pIx, K_pq, K_p8c}

\* the urls requests are sent to
U_p8 == <<"/", "p", "/", "8">>
U_p8tp == <<"/", "p", "/", "8", "?", "t", "=", "p">>
U_p8tx == <<"/", "p", "/", "8", "?", "t", "=", "x">>
U_px == <<"/", "p", "/", "x">>
U_pd == <<"/", "p", "/", "%", "2", "2", "d", "%", "2", "2">>
U_pq == <<"/", "p", "?", "t", "=", "%">>
U_p8x == <<"/", "p", "/", "8", "/", "x">>
U_pm == <<"/", "p", "/", "%">>
U_p8c == <<"/", "p", "/", "8", "?", "t", "=", ":">>
U_p8ca == <<"/", "p", "/", "8", "?", "t", "=", ":", "&">>

Urls == {U_p8, U_p8tp, U_p8tx, U_px, U_pd, U_pq, U_p8x, U_pm, U_p8c, U_p8ca}

\* the method names mock() is called with
MockMethods == {"GET", "post"}

\* the handler functions
Handlers == {"h1", "h2"}

\* opts.method of a request: "" is a request that sets none (a GET)
RequestMethods == {"", "POST", "DELETE"}

B_b == <<"b">>

\* opts.body of a request with the given method
Bodies(method) == IF method = "POST" THEN {NoValue, B_b} ELSE {NoValue}

\* the response markers handlers and the observer return
M_200 == Marker(200, <<"8">>)
M_404 == Marker(404, <<"n", "f">>)

HandlerReturns == {Nothing, M_200, M_404}
ObserverReturns == {Nothing, Throws, M_404}

(***************************************************************************)
(* The request builder and the defaults (index.ts). Arrays and option      *)
(* objects are shared by reference: client.arrays and client.objects hold  *)
(* them, and a reference is an index, 0 standing for undefined.            *)
(***************************************************************************)
NoRef == 0

\* a property that is not set
Absent == "absent"

\* a headers object: present is FALSE for undefined
NoHeaders == [present |-> FALSE, entries |-> {}]
Headers(entries) == [present |-> TRUE, entries |-> entries]

\* Object.assign({}, headers, { [name]: value })
AssignHeader(headers, name, value) ==
    Headers({h \in headers.entries : h[1] # name} \cup {<<name, value>>})

\* { job: fn } and { job: fn, catch: true }
Job(fn, isCatch) == [job |-> fn, catch |-> isCatch]

\* the options object literal a caller writes
OptsLiteral(noHeaderDefaults, responsePipeline) ==
    [method |-> Absent, body |-> Absent, headers |-> NoHeaders, credentials |-> Absent,
     noHeaderDefaults |-> noHeaderDefaults, responsePipeline |-> responsePipeline]

\* let defaults = {}, and nothing built yet. builder is the array the builder of
\* buildResponsePipeline holds in _this.responsePipeline, built the array its
\* build() returned last.
InitClient ==
    [defaults |-> [headers |-> NoHeaders, responsePipeline |-> NoRef],
     arrays |-> <<>>, builder |-> NoRef, built |-> NoRef,
     objects |-> <<>>, requests |-> <<>>]

\* the variables of the mocking library
libraryVars ==
    <<hasMocks, mockMap, unmockedMap, onUnmockedRequest, last, nreq, requestCatcher,
      recordQueryParams, requestMap, recorded, unmockedLog, flights>>

\* buildResponsePipeline(fn): a new array with the job fn
BuildResponsePipeline(fn) ==
    /\ Len(client.arrays) < MaxArrays
    /\ client' = [client EXCEPT !.arrays = Append(@, <<Job(fn, FALSE)>>),
                                !.builder = Len(client.arrays) + 1]
    /\ UNCHANGED libraryVars

\* _this.then(fn) and _this.catch(fn): push onto the array the builder holds
BuilderPush(fn, isCatch) ==
    /\ client.builder # NoRef
    /\ Len(client.arrays[client.builder]) < MaxBuilderJobs
    /\ client' = [client EXCEPT !.arrays[client.builder] = Append(@, Job(fn, isCatch))]
    /\ UNCHANGED libraryVars

BuilderThen(fn) == BuilderPush(fn, FALSE)

BuilderCatch(fn) == BuilderPush(fn, TRUE)

\* _this.setDefault(): _this.responsePipeline = defaults.responsePipeline || [],
\* the array of the defaults itself, or a new empty one
BuilderSetDefault ==
    /\ client.builder # NoRef
    /\ IF client.defaults.responsePipeline # NoRef
       THEN client' = [client EXCEPT !.builder = client.defaults.responsePipeline]
       ELSE /\ Len(client.arrays) < MaxArrays
            /\ client' = [client EXCEPT !.arrays = Append(@, <<>>),
                                        !.builder = Len(client.arrays) + 1]
    /\ UNCHANGED libraryVars

\* _this.build(): returns the array the builder holds
BuilderBuild ==
    /\ client.builder # NoRef
    /\ client' = [client EXCEPT !.built = client.builder]
    /\ UNCHANGED libraryVars

\* setHttpDefaults(newDefaults): defaults = { ...defaults, ...newDefaults }, the
\* properties newDefaults has replace those of the defaults
setHttpDefaults(defaults, newDefaults) ==
    [headers |-> IF newDefaults.headers.present THEN newDefaults.headers
                 ELSE defaults.headers,
     responsePipeline |-> IF newDefaults.responsePipeline # NoRef
                          THEN newDefaults.responsePipeline
                          ELSE defaults.responsePipeline]

SetHttpDefaults(newDefaults) ==
    /\ client' = [client EXCEPT !.defaults = setHttpDefaults(@, newDefaults)]
    /\ UNCHANGED libraryVars

\* the caller writes an options object
NewOpts(noHeaderDefaults, responsePipeline) ==
    /\ Len(client.objects) < MaxOpts
    /\ client' = [client EXCEPT !.objects =
                     Append(@, OptsLiteral(noHeaderDefaults, responsePipeline))]
    /\ UNCHANGED libraryVars

\* the object this.opts is after the constructor ran on the object opts:
\* this.opts = opts, the same object, with headers set and the two temporary
\* options deleted
ConstructedOpts(opts, defaults) ==
    [opts EXCEPT !.headers = Headers(IF opts.noHeaderDefaults # Absent THEN {}
                                     ELSE defaults.headers.entries),
                 !.noHeaderDefaults = Absent,
                 !.responsePipeline = NoRef]

\* this.responsePipeline = this.opts.responsePipeline ||
\* defaults.responsePipeline || []: a reference, NoRef being an empty array of
\* the request's own
ConstructedPipeline(opts, defaults) ==
    IF opts.responsePipeline # NoRef THEN opts.responsePipeline
    ELSE defaults.responsePipeline

\* the jobs of the array a reference points to
JobsOf(arrays, ref) == IF ref = NoRef THEN <<>> ELSE arrays[ref]

\* the request new HttpRequest(url, opts) makes, opts being the object o. given
\* is the object the caller passed, and defaultsAt, headersAt and jobsAt are the
\* defaults, the headers and the jobs at the time of the construction.
ConstructedRequest(o, opts, defaults, arrays) ==
    [opts |-> o, responsePipeline |-> ConstructedPipeline(opts, defaults),
     given |-> o, defaultsAt |-> defaults,
     headersAt |-> ConstructedOpts(opts, defaults).headers,
     jobsAt |-> JobsOf(arrays, ConstructedPipeline(opts, defaults))]

\* http(url, opts) with the options object o of the caller
Http(o) ==
    /\ Len(client.requests) < MaxBuilt
    /\ client' = [client EXCEPT
                     !.objects[o] = ConstructedOpts(@, client.defaults),
                     !.requests = Append(@, ConstructedRequest(o, client.objects[o],
                                                               client.defaults,
                                                               client.arrays))]
    /\ UNCHANGED libraryVars

\* http(url): opts || {} is a new object
HttpNoOpts ==
    /\ Len(client.requests) < MaxBuilt
    /\ Len(client.objects) < MaxOpts
    /\ client' = [client EXCEPT
                     !.objects = Append(@, ConstructedOpts(OptsLiteral(Absent, NoRef),
                                                           client.defaults)),
                     !.requests = Append(@, [ConstructedRequest(Len(client.objects) + 1,
                                                                OptsLiteral(Absent, NoRef),
                                                                client.defaults,
                                                                client.arrays)
                                             EXCEPT !.given = NoRef])]
    /\ UNCHANGED libraryVars

\* a chainable function of the request r changes this.opts
Chain(r, opts) ==
    /\ client' = [client EXCEPT !.objects[client.requests[r].opts] = opts]
    /\ UNCHANGED libraryVars

\* this.opts of the request r
OptsOf(r) == client.objects[client.requests[r].opts]

\* post(), put(), del(): this.opts.method = 'POST' | 'PUT' | 'DELETE'
post(r) == Chain(r, [OptsOf(r) EXCEPT !.method = "POST"])

put(r) == Chain(r, [OptsOf(r) EXCEPT !.method = "PUT"])

del(r) == Chain(r, [OptsOf(r) EXCEPT !.method = "DELETE"])

\* withBody(body, contentType) with a content type
withBody(r, body, contentType) ==
    Chain(r, [OptsOf(r) EXCEPT !.body = body,
                               !.headers = AssignHeader(@, "Content-Type", contentType)])

\* accept(contentType)
accept(r, contentType) ==
    Chain(r, [OptsOf(r) EXCEPT !.headers = AssignHeader(@, "Accept", contentType)])

\* withCreds(credentials)
withCreds(r, credentials) == Chain(r, [OptsOf(r) EXCEPT !.credentials = credentials])

(***************************************************************************)
(* The state machine.                                                      *)
(***************************************************************************)
\* the log before any request, and after an operation other than request()
Idle ==
    [phase |-> "idle", method |-> "", url |-> <<>>, body |-> NoValue,
     hret |-> Nothing, oret |-> Nothing, ret |-> "", value |-> Undefined,
     status |-> 0, calls |-> <<>>, scanned |-> <<>>, observed |-> <<>>,
     fetch |-> 0, recorder |-> ""]

\* the state after mockHttp(http)
Init ==
    /\ hasMocks = FALSE
    /\ mockMap = EmptyMockMap
    /\ unmockedMap = EmptyMap
    /\ onUnmockedRequest = FALSE
    /\ last = Idle
    /\ nreq = 0
    /\ requestCatcher = EmptyMap
    /\ recordQueryParams = FALSE
    /\ requestMap = EmptyMap
    /\ recorded = <<>>
    /\ unmockedLog = <<>>
    /\ flights = <<>>
    /\ client = InitClient

\* http.mock(method, url, handler) with a method name
Mock(method, url, handler) ==
    /\ KeyCount < MaxKeys \/ HasKey(mockMap[ToLowerCase(method)], url)
    /\ hasMocks' = TRUE
    /\ mockMap' = [mockMap EXCEPT ![ToLowerCase(method)] = SetHandler(@, url, handler)]
    /\ last' = Idle
    /\ UNCHANGED flights
    /\ UNCHANGED client
    /\ UNCHANGED <<unmockedMap, onUnmockedRequest, nreq, unmockedLog>>
    /\ UNCHANGED recorderVars

\* the log after clearMocks()
Cleared == [Idle EXCEPT !.phase = "cleared"]

\* what clearMocks would do if it also withdrew the answers of the mocked
\* requests still in flight, leaving them to fetch
ClearMocks_WithdrawsAnswers ==
    /\ hasMocks' = FALSE
    /\ mockMap' = EmptyMockMap
    /\ last' = [Idle EXCEPT !.phase = "cleared"]
    /\ flights' = [i \in 1..Len(flights) |->
                      IF flights[i].mocked /\ flights[i].ran = <<>>
                      THEN [flights[i] EXCEPT !.mocked = FALSE,
                                             !.at = [state |-> "pending",
                                                     value |-> Undefined]]
                      ELSE flights[i]]
    /\ UNCHANGED client
    /\ UNCHANGED <<unmockedMap, onUnmockedRequest, nreq, unmockedLog>>
    /\ UNCHANGED recorderVars

\* what clearMocks would do if it reset the traffic maps with the registry
ClearMocks_DropsTraffic ==
    /\ hasMocks' = FALSE
    /\ mockMap' = EmptyMockMap
    /\ last' = Cleared
    /\ unmockedMap' = EmptyMap
    /\ requestCatcher' = EmptyMap
    /\ UNCHANGED flights
    /\ UNCHANGED client
    /\ UNCHANGED <<onUnmockedRequest, nreq, unmockedLog, recordQueryParams, requestMap,
                   recorded>>

\* http.clearMocks()
ClearMocks ==
    /\ hasMocks' = FALSE
    /\ mockMap' = EmptyMockMap
    /\ last' = Cleared
    /\ UNCHANGED flights
    /\ UNCHANGED client
    /\ UNCHANGED <<unmockedMap, onUnmockedRequest, nreq, unmockedLog>>
    /\ UNCHANGED recorderVars

\* http.onUnmockedRequest = a function (set) or undefined
SetOnUnmockedRequest(set) ==
    /\ onUnmockedRequest' = set
    /\ last' = Idle
    /\ UNCHANGED flights
    /\ UNCHANGED client
    /\ UNCHANGED <<hasMocks, mockMap, unmockedMap, nreq, unmockedLog>>
    /\ UNCHANGED recorderVars

\* the log of a call of request(): m is what tryMocked did
LogOf(m, url, opts, hret, oret) ==
    [phase |-> "done", method |-> MethodOf(opts), url |-> url, body |-> opts.body,
     hret |-> IF m.calls # <<>>
              THEN HandlerReturn(m.calls[1].handler, MethodOf(opts), m.calls[1].key,
                                 opts.body, hret)
              ELSE Nothing,
     oret |-> IF m.observed # <<>> THEN oret ELSE Nothing,
     ret |-> m.ret, value |-> m.value, status |-> m.status,
     calls |-> m.calls, scanned |-> m.scanned,
     observed |-> m.observed, fetch |-> FetchCalls(m), recorder |-> ""]

\* the effect of request() on the state
Dispatch(m, url, opts, hret, oret) ==
    /\ unmockedMap' = m.unmocked
    /\ unmockedLog' = unmockedLog \o m.observed
    /\ last' = LogOf(m, url, opts, hret, oret)

\* http(url, opts).request(), to the point where the request promise is built
Request(url, opts, hret, oret) ==
    /\ nreq < MaxRequests
    /\ Dispatch(tryMocked(url, opts, hret, oret), url, opts, hret, oret)
    /\ nreq' = nreq + 1
    /\ UNCHANGED flights
    /\ UNCHANGED client
    /\ UNCHANGED <<hasMocks, mockMap, onUnmockedRequest>>
    /\ UNCHANGED recorderVars

Next ==
    \/ \E method \in MockMethods, url \in MockUrls, handler \in Handlers :
          Mock(method, url, handler)
    \/ ClearMocks
    \/ \E set \in BOOLEAN : SetOnUnmockedRequest(set)
    \/ \E url \in Urls, method \in RequestMethods :
          \E body \in Bodies(method), hret \in HandlerReturns, oret \in ObserverReturns :
             Request(url, [method |-> method, body |-> body], hret, oret)

Spec == Init /\ [][Next]_vars

(***************************************************************************)
(* The resolution of a response marker on its own: the initial states draw *)
(* a marker, the one action resolves it.                                   *)
(***************************************************************************)
ResolveStatuses == {200, 201, 204, 400, 404, 500}

ResolveBodies ==
    {NoValue, <<>>, OK, <<"8">>, <<"0", "8">>, <<"\"", "d", "\"">>, <<"n", "f">>,
     <<"{", "}">>, <<"n", "u", "l", "l">>}

InitResolve ==
    /\ hasMocks = FALSE
    /\ mockMap = EmptyMockMap
    /\ unmockedMap = EmptyMap
    /\ onUnmockedRequest = FALSE
    /\ nreq = 0
    /\ requestCatcher = EmptyMap
    /\ recordQueryParams = FALSE
    /\ requestMap = EmptyMap
    /\ recorded = <<>>
    /\ unmockedLog = <<>>
    /\ flights = <<>>
    /\ client = InitClient
    /\ \E status \in ResolveStatuses, body \in ResolveBodies :
          last = [Idle EXCEPT !.phase = "marker", !.hret = Marker(status, body)]

\* the log once the marker is resolved, p being what promiseMockedResponse gave
ResolvedLog(p) ==
    [last EXCEPT !.phase = "resolved", !.ret = p.ret, !.value = p.value,
                 !.status = p.status]

\* http.promiseMockedResponse(marker)
Resolve ==
    /\ last.phase = "marker"
    /\ last' = ResolvedLog(promiseMockedResponse(last.hret))
    /\ UNCHANGED flights
    /\ UNCHANGED client
    /\ UNCHANGED <<hasMocks, mockMap, unmockedMap, onUnmockedRequest, nreq, unmockedLog>>
    /\ UNCHANGED recorderVars

NextResolve == Resolve

SpecResolve == InitResolve /\ [][NextResolve]_vars

(***************************************************************************)
(* The recorder on its own: requests complete and record() runs for each.  *)
(***************************************************************************)
\* the urls, methods and bodies of the requests that are recorded and replayed
R_a == <<"/", "a">>
R_b == <<"/", "b">>
R_aq == <<"/", "a", "?", "t", "=", "%">>

RecorderUrls == {R_a, R_b, R_aq}

RecorderMethods == {"", "POST", "PUT", "DELETE"}

B_8 == <<"8">>

RecorderBodies(method) ==
    IF method \in {"POST", "PUT"} THEN {NoValue, B_b, B_8} ELSE {NoValue}

\* the entry the default recording stores for a request
RecordedEntry(url, opts) ==
    [method |-> MethodOf(opts), url |-> RecordedUrl(url), body |-> opts.body]

\* what the promise of a recorded request is fulfilled with: nothing, or a
\* payload
RecordResponses == {Undefined, Num(B_8)}

\* the log of a call of record
RecordLog(url, opts, observer, response) ==
    [Idle EXCEPT !.phase = "recorded", !.method = MethodOf(opts), !.url = url,
                 !.body = opts.body, !.recorder = observer, !.value = response]

\* the promise of the request (url, opts) is fulfilled with response and
\* http.record runs, http.onRecordResponse being as observer says
Record(url, opts, observer, response) ==
    /\ Len(recorded) < MaxRecords
    /\ requestCatcher' = record(requestCatcher, url, opts, observer, response)
    /\ recorded' = IF observer = "handled" THEN recorded
                   ELSE Append(recorded, RecordedEntry(url, opts))
    /\ last' = RecordLog(url, opts, observer, response)
    /\ UNCHANGED flights
    /\ UNCHANGED client
    /\ UNCHANGED <<hasMocks, mockMap, unmockedMap, onUnmockedRequest, nreq,
                   recordQueryParams, requestMap, unmockedLog>>

\* http.recordQueryParams = set
SetRecordQueryParams(set) ==
    /\ recordQueryParams' = set
    /\ last' = Idle
    /\ UNCHANGED flights
    /\ UNCHANGED client
    /\ UNCHANGED <<hasMocks, mockMap, unmockedMap, onUnmockedRequest, nreq,
                   requestCatcher, requestMap, recorded, unmockedLog>>

NextRecorder ==
    \/ \E url \in RecorderUrls, method \in RecorderMethods :
          \E body \in RecorderBodies(method), observer \in RecordObservers,
             response \in RecordResponses :
             Record(url, [method |-> method, body |-> body], observer, response)
    \/ \E set \in BOOLEAN : SetRecordQueryParams(set)

SpecRecorder == Init /\ [][NextRecorder]_vars

(***************************************************************************)
(* A session that records traffic, registers the recorded map as mocks and *)
(* sends requests again.                                                   *)
(***************************************************************************)
\* what http.mock(requestMap) would do if it raised http.hasMocks itself, whatever
\* the map holds
MockRecorded_SetsFlag ==
    /\ requestMap' = RequestMapOf(JsonParse(dumpRequestMap(requestCatcher)))
    /\ mockMap' = mockRequestMap(requestMap')
    /\ hasMocks' = TRUE
    /\ last' = Idle
    /\ UNCHANGED flights
    /\ UNCHANGED client
    /\ UNCHANGED <<unmockedMap, onUnmockedRequest, nreq, requestCatcher,
                   recordQueryParams, recorded, unmockedLog>>

\* http.mock(JSON.parse(http.dumpRequestMap()))
MockRecorded ==
    /\ requestMap' = RequestMapOf(JsonParse(dumpRequestMap(requestCatcher)))
    /\ mockMap' = mockRequestMap(requestMap')
    /\ hasMocks' = (hasMocks \/ HasUrls(requestMap'))
    /\ last' = Idle
    /\ UNCHANGED flights
    /\ UNCHANGED client
    /\ UNCHANGED <<unmockedMap, onUnmockedRequest, nreq, requestCatcher,
                   recordQueryParams, recorded, unmockedLog>>

\* http(url, opts).request() in the session: the handlers are those of the
\* request map, which return what the map holds
Replay(url, opts, oret) ==
    /\ nreq < MaxReplays
    /\ Dispatch(tryMocked(url, opts, Nothing, oret), url, opts, Nothing, oret)
    /\ nreq' = nreq + 1
    /\ UNCHANGED flights
    /\ UNCHANGED client
    /\ UNCHANGED <<hasMocks, mockMap, onUnmockedRequest>>
    /\ UNCHANGED recorderVars

\* the requests of the session, and what its observer returns
SessionUrls == {R_a, R_aq}

SessionBodies(method) == IF method \in {"POST", "PUT"} THEN {NoValue, B_b} ELSE {NoValue}

SessionObserverReturns == {Nothing}

NextSession ==
    \/ \E url \in SessionUrls, method \in RecorderMethods :
          \E body \in SessionBodies(method) :
             /\ Len(recorded) < MaxSessionRecords
             /\ Record(url, [method |-> method, body |-> body], "absent", Undefined)
    \/ MockRecorded
    \/ ClearMocks
    \/ \E set \in BOOLEAN : SetOnUnmockedRequest(set)
    \/ \E set \in BOOLEAN : SetRecordQueryParams(set)
    \/ \E url \in SessionUrls, method \in RecorderMethods :
          \E body \in SessionBodies(method), oret \in SessionObserverReturns :
             Replay(url, [method |-> method, body |-> body], oret)

SpecSession == Init /\ [][NextSession]_vars

(***************************************************************************)
(* request() as a whole (index.ts): the promise chain it builds and the     *)
(* stages of the chain, which run one at a time, those of different         *)
(* requests in any order.                                                   *)
(***************************************************************************)
\* a response pipeline: for each job, whether it is an error job ({ catch: true })
Pipelines(n) == UNION {[1..k -> BOOLEAN] : k \in 0..n}

\* a Response of fetch: its status and the text of its body, which is JSON or
\* plain text
Response(status, body) == [t |-> "Response", v |-> [status |-> status, body |-> body]]

\* what fetch fulfils its promise with where the body plays no part, and what it
\* rejects it with
FetchResponse == Response(200, <<"8">>)
NetworkError == [t |-> "TypeError", v |-> <<>>]

JobNames == <<"1", "2", "3", "4">>

\* what the job of stage k returns, and what it throws
Returned(k) == [t |-> "returned", v |-> <<JobNames[k]>>]
ThrownBy(k) == [t |-> "thrown", v |-> <<JobNames[k]>>]

\* the state of a promise
Settled(state, value) == [state |-> state, value |-> value]

\* the promise request() starts the chain with, m being what tryMocked did: the
\* promise of the mock, or that of fetch, which is pending
FirstPromise(m) ==
    IF m.ret = "promise" THEN Settled("fulfilled", m.value)
    ELSE Settled("pending", Undefined)

\* the functions that send a request: request() itself, and those that attach a
\* reaction to the promise of request()
PlainRequest == "request"

RequestKinds ==
    {PlainRequest, "requestJson", "requestText", "requestArrayBuffer", "requestBlob",
     "requestFormData"}

\* the chain the call returns: stage k <= Len(pipeline) is the job k, stage
\* Len(pipeline) + 1 is http.record; for request() the next stage is the
\* continuation of the caller, for requestJson() and the like it is the reaction
\* res => ..., and the continuation of the caller comes after it. at is the
\* promise the next stage waits for, pc that stage, ran the stages that ran with
\* the promise each received and the one it gave. opts is this.opts, the object
\* the request holds, object that object (requests made with one options object
\* have the same number), and sent what it held when the request was sent;
\* status is the status a mock's status object carries.
NewFlight(m, kind, url, opts, object, pipeline) ==
    [kind |-> kind, url |-> url, opts |-> opts, object |-> object, sent |-> opts,
     pipeline |-> pipeline,
     mocked |-> (m.ret = "promise"), answer |-> m.value, status |-> m.status,
     at |-> FirstPromise(m), pc |-> 1, ran |-> <<>>, recorder |-> ""]

\* the stage of a chain that http.record is, that of the reaction, and that of
\* the caller
RecordStage(f) == Len(f.pipeline) + 1
ReactionStage(f) == Len(f.pipeline) + 2
CallerStage(f) == IF f.kind = PlainRequest THEN Len(f.pipeline) + 2 ELSE Len(f.pipeline) + 3

\* what JobRuns would be if every job ran on every settled promise
JobRuns_Always(isCatch, p) == TRUE

\* request = request.then(job) or request.catch(job): whether the job runs on
\* the promise p
JobRuns(isCatch, p) == IF isCatch THEN p.state = "rejected" ELSE p.state = "fulfilled"

\* the flight after a stage ran with what it received, next being the promise
\* the stage leaves
Ran(f, next) ==
    [f EXCEPT !.ran = Append(@, [stage |-> f.pc, got |-> f.at, gave |-> next]),
              !.at = next, !.pc = @ + 1]

\* a stage that does not run passes the promise on
Passed(f) == [f EXCEPT !.pc = @ + 1]

\* a request is sent with the response pipeline it has, by request() or by one
\* of the functions that call it: the mock decision, and the chain built on its
\* promise. When tryMocked throws, request() throws and there is no promise. The
\* Accept header requestJson() and the like set first plays no part in the mock
\* decision or in the recording.
SendWith(kind, url, opts, object, pipeline, hret, oret) ==
    /\ nreq < MaxFlights
    /\ Dispatch(tryMocked(url, opts, hret, oret), url, opts, hret, oret)
    /\ flights' = IF tryMocked(url, opts, hret, oret).ret = "throw" THEN flights
                  ELSE Append(flights, NewFlight(tryMocked(url, opts, hret, oret),
                                                 kind, url, opts, object, pipeline))
    /\ nreq' = nreq + 1
    /\ UNCHANGED client
    /\ UNCHANGED <<hasMocks, mockMap, onUnmockedRequest>>
    /\ UNCHANGED recorderVars

\* a request made with an options object of its own
SendAs(kind, url, opts, pipeline, hret, oret) ==
    SendWith(kind, url, opts, Len(flights) + 1, pipeline, hret, oret)

\* http(url, opts).request()
Send(url, opts, pipeline, hret, oret) ==
    SendAs(PlainRequest, url, opts, pipeline, hret, oret)

\* a request made with the options object the request of flight j was made
\* with, as that object is now (this.opts = opts, the object of the caller), or
\* the request of flight j sent again
SendSharing(j, kind, url, pipeline, hret, oret) ==
    SendWith(kind, url, flights[j].opts, flights[j].object, pipeline, hret, oret)

\* a chainable function is called on a request that was sent: post(), put() and
\* del() set this.opts.method, withBody() and the like set this.opts.body. The
\* object is changed, for every request that holds it.
ChainAfterRequest(i, name, value) ==
    /\ flights' = [j \in 1..Len(flights) |->
                      IF flights[j].object = flights[i].object
                      THEN [flights[j] EXCEPT !.opts[name] = value]
                      ELSE flights[j]]
    /\ UNCHANGED client
    /\ UNCHANGED <<hasMocks, mockMap, unmockedMap, onUnmockedRequest, last, nreq,
                   unmockedLog>>
    /\ UNCHANGED recorderVars

\* what is set on a request after it was sent: put(), and withTextBody('b')
Chained == {[name |-> "method", value |-> "PUT"], [name |-> "body", value |-> B_b]}

\* what the promise of fetch settles with: one of the responses, or a network
\* error
FetchOutcomes(responses) ==
    {Settled("fulfilled", r) : r \in responses} \cup {Settled("rejected", NetworkError)}

\* the promise of fetch settles
Settle(i, settled) ==
    /\ flights[i].at.state = "pending"
    /\ flights[i].pc = 1
    /\ flights' = [flights EXCEPT ![i].at = settled]
    /\ UNCHANGED client
    /\ UNCHANGED <<hasMocks, mockMap, unmockedMap, onUnmockedRequest, last, nreq,
                   unmockedLog>>
    /\ UNCHANGED recorderVars

\* what a job does with the value or the reason it receives: it returns a value
\* of its own, what it received, or nothing, or it throws an error of its own or
\* what it received. (A job that returns a promise leaves what that promise
\* settles with, some turns later.)
JobResults ==
    {"returns", "returns received", "returns undefined", "throws", "throws received"}

\* the promise then(job) or catch(job) gives when job k ran on the promise p
JobOutcome(k, result, p) ==
    CASE result = "returns" -> Settled("fulfilled", Returned(k))
      [] result = "returns received" -> Settled("fulfilled", p.value)
      [] result = "returns undefined" -> Settled("fulfilled", Undefined)
      [] result = "throws" -> Settled("rejected", ThrownBy(k))
      [] result = "throws received" -> Settled("rejected", p.value)

\* the next stage of the chain of flight i is a job of the pipeline: it runs, and
\* returns or throws, or it passes the promise on
RunJob(i, result) ==
    /\ flights[i].at.state # "pending"
    /\ flights[i].pc <= Len(flights[i].pipeline)
    /\ flights' = [flights EXCEPT ![i] =
                      IF JobRuns(@.pipeline[@.pc], @.at)
                      THEN Ran(@, JobOutcome(@.pc, result, @.at))
                      ELSE Passed(@)]
    /\ UNCHANGED client
    /\ UNCHANGED <<hasMocks, mockMap, unmockedMap, onUnmockedRequest, last, nreq,
                   unmockedLog>>
    /\ UNCHANGED recorderVars

\* what RecordRuns would be if record were attached for both outcomes
RecordRuns_Always(p) == p.state # "pending"

\* request.then(http.record.bind(this)) has no rejection reaction: whether record
\* runs on the promise p
RecordRuns(p) == p.state = "fulfilled"

\* the next stage is request.then(http.record.bind(this)): record runs on a
\* fulfilled promise and returns the response
RunRecord(i, observer) ==
    /\ flights[i].at.state # "pending"
    /\ flights[i].pc = RecordStage(flights[i])
    /\ IF RecordRuns(flights[i].at)
       THEN /\ requestCatcher' = record(requestCatcher, flights[i].url, flights[i].opts,
                                        observer, flights[i].at.value)
            /\ recorded' = IF observer = "handled" THEN recorded
                           ELSE Append(recorded,
                                       RecordedEntry(flights[i].url, flights[i].opts))
            /\ last' = RecordLog(flights[i].url, flights[i].opts, observer,
                                 flights[i].at.value)
            /\ flights' = [flights EXCEPT ![i] = [Ran(@, @.at) EXCEPT !.recorder = observer]]
       ELSE /\ flights' = [flights EXCEPT ![i] = Passed(@)]
            /\ UNCHANGED <<requestCatcher, recorded, last>>
    /\ UNCHANGED client
    /\ UNCHANGED <<hasMocks, mockMap, unmockedMap, onUnmockedRequest, nreq,
                   recordQueryParams, requestMap, unmockedLog>>

\* the promise request() returned is settled: the continuation of the caller
\* observes it
Deliver(i) ==
    /\ flights[i].at.state # "pending"
    /\ flights[i].pc = CallerStage(flights[i])
    /\ flights' = [flights EXCEPT ![i] = Ran(@, @.at)]
    /\ UNCHANGED client
    /\ UNCHANGED <<hasMocks, mockMap, unmockedMap, onUnmockedRequest, last, nreq,
                   unmockedLog>>
    /\ UNCHANGED recorderVars

(***************************************************************************)
(* requestJson() and the like (index.ts): request().then(res => res.status *)
(* === 204 ? null : res.json()), with res.text(), res.arrayBuffer(),       *)
(* res.blob() or res.formData() in the place of res.json().                *)
(***************************************************************************)
Null == [t |-> "null", v |-> <<>>]

\* the TypeError of reading a property of undefined or null, that of calling
\* res.json (text, ...) when it is not a function, and that of formData() on a
\* body that is no form
NoProperties == [t |-> "TypeError: cannot read properties", v |-> <<>>]
NotAFunction == [t |-> "TypeError: not a function", v |-> <<>>]
NotAForm == [t |-> "TypeError: not a form", v |-> <<>>]

\* res.status === 204, of a value that is no Response and has properties: the
\* status object of a mock, a decoded JSON value, or what a job returned
StatusIs204(res) ==
    /\ res.t = "object"
    /\ HasProperty(res.v, StatusName)
    /\ GetProperty(res.v, StatusName) = NumberOf(204)

\* res => res.status === 204 ? null : res.json(), and the like, on the value
\* the promise before it is fulfilled with: the answer of the mock or of fetch,
\* or what the last job that ran returned. On a fetch Response with another
\* status the reaction returns the promise of res.json(), pending while the
\* body is read (its value here is the Response being read); any other value
\* has no json, text, arrayBuffer, blob or formData method.
Reaction(res) ==
    IF res.t \in {"undefined", "null"} THEN Settled("rejected", NoProperties)
    ELSE IF res.t = "Response"
    THEN IF res.v.status = 204 THEN Settled("fulfilled", Null)
         ELSE Settled("pending", res)
    ELSE IF StatusIs204(res) THEN Settled("fulfilled", Null)
    ELSE Settled("rejected", NotAFunction)

\* what res.json(), res.text(), res.arrayBuffer(), res.blob() and res.formData()
\* settle with once the body is read: the decoded JSON or a SyntaxError, the
\* text, the bytes, and for formData() a TypeError, the body being JSON or text
BodyAs(kind, body) ==
    CASE kind = "requestJson" ->
            IF JsonParse(body) = SyntaxError THEN Settled("rejected", SyntaxError)
            ELSE Settled("fulfilled", JsonParse(body))
      [] kind = "requestText" -> Settled("fulfilled", Str(body))
      [] kind = "requestArrayBuffer" -> Settled("fulfilled", [t |-> "ArrayBuffer", v |-> body])
      [] kind = "requestBlob" -> Settled("fulfilled", [t |-> "Blob", v |-> body])
      [] kind = "requestFormData" -> Settled("rejected", NotAForm)

\* the next stage is the reaction requestJson() or the like attached: then()
\* runs it on a fulfilled promise of request() and passes a rejected one on
React(i) ==
    /\ flights[i].kind # PlainRequest
    /\ flights[i].at.state # "pending"
    /\ flights[i].pc = ReactionStage(flights[i])
    /\ flights' = [flights EXCEPT ![i] =
                      IF @.at.state = "fulfilled"
                      THEN Ran(@, Reaction(@.at.value))
                      ELSE Passed(@)]
    /\ UNCHANGED client
    /\ UNCHANGED <<hasMocks, mockMap, unmockedMap, onUnmockedRequest, last, nreq,
                   unmockedLog>>
    /\ UNCHANGED recorderVars

\* the body of the Response is read: the promise the reaction returned settles
ReadBody(i) ==
    /\ flights[i].kind # PlainRequest
    /\ flights[i].at.state = "pending"
    /\ flights[i].pc = CallerStage(flights[i])
    /\ flights' = [flights EXCEPT ![i].at = BodyAs(flights[i].kind, @.value.v.body)]
    /\ UNCHANGED client
    /\ UNCHANGED <<hasMocks, mockMap, unmockedMap, onUnmockedRequest, last, nreq,
                   unmockedLog>>
    /\ UNCHANGED recorderVars

\* http.refreshMap(refreshObj) (mock.ts), for each url of refreshObj.get:
\* http(url).requestJson().catch(() => {}), a request of method GET with the
\* default pipeline. The urls are sent one after the other, in one turn.
RefreshMapGet(url, pipeline, hret, oret) ==
    SendAs("requestJson", url, [method |-> "", body |-> NoValue], pipeline, hret, oret)

\* http.refreshMap(refreshObj), for a request [url, body] of refreshObj.post:
\* the timer runs http(url).post().withStringBody(body), and a request has no
\* function withStringBody: the callback throws before requestJson() is called,
\* no request is sent and the promise of refreshMap stays pending
RefreshMapPost(url, body) ==
    /\ last' = [Idle EXCEPT !.phase = "timer threw", !.method = "post", !.url = url,
                            !.body = body, !.value = NotAFunction]
    /\ UNCHANGED <<flights, client>>
    /\ UNCHANGED <<hasMocks, mockMap, unmockedMap, onUnmockedRequest, nreq, unmockedLog>>
    /\ UNCHANGED recorderVars

\* the markers the handler of a request made with requestJson() returns
JsonBodies ==
    {<<"8">>, <<"\"", "d", "\"">>, <<"{", "}">>, <<"n", "u", "l", "l">>,
     <<"[", "8", "]">>,
     <<"{", "\"", "s", "t", "a", "t", "u", "s", "\"", ":", "2", "0", "4", "}">>}

JsonMarkers ==
    {Marker(200, body) : body \in JsonBodies \cup {OK}} \cup {Marker(204, <<>>), M_404}

\* the responses of fetch to such a request: JSON, no content, text that is no
\* JSON, and an empty body
JsonResponses ==
    {Response(200, <<"{", "}">>), Response(204, <<>>), Response(200, <<"n", "f">>),
     Response(200, <<>>)}

\* the pipelines of these requests: none, or one normal job
JsonPipelines == {<<>>, <<FALSE>>}

\* requests made with request(), with requestJson() or with another of the
\* functions that read the body
NextJson ==
    \/ \E handler \in {"h1"} : Mock("GET", R_a, handler)
    \/ \E kind \in RequestKinds, url \in {R_a, R_b}, pipeline \in JsonPipelines :
          \E hret \in JsonMarkers :
             /\ flights = <<>>
             /\ SendAs(kind, url, [method |-> "", body |-> NoValue], pipeline, hret,
                       Nothing)
    \/ \E url \in {R_a, R_b}, pipeline \in JsonPipelines, hret \in JsonMarkers :
          /\ flights = <<>>
          /\ RefreshMapGet(url, pipeline, hret, Nothing)
    \/ \E i \in 1..Len(flights), result \in JobResults : RunJob(i, result)
    \/ \E url \in {R_a}, body \in {B_b} : RefreshMapPost(url, body)
    \/ \E i \in 1..Len(flights), c \in Chained :
          ChainAfterRequest(i, c.name, c.value)
    \/ \E i \in 1..Len(flights), settled \in FetchOutcomes(JsonResponses) :
          Settle(i, settled)
    \/ \E i \in 1..Len(flights), observer \in RecordObservers : RunRecord(i, observer)
    \/ \E i \in 1..Len(flights) : React(i)
    \/ \E i \in 1..Len(flights) : ReadBody(i)
    \/ \E i \in 1..Len(flights) : Deliver(i)

SpecJson == Init /\ [][NextJson]_vars

\* one request and its pipeline
NextPipeline ==
    \/ \E handler \in {"h1"} : Mock("GET", R_a, handler)
    \/ \E url \in {R_a, R_b}, pipeline \in Pipelines(MaxJobs), hret \in {M_200, M_404} :
          /\ flights = <<>>
          /\ Send(url, [method |-> "", body |-> NoValue], pipeline, hret, Nothing)
    \/ \E i \in 1..Len(flights), c \in Chained :
          ChainAfterRequest(i, c.name, c.value)
    \/ \E i \in 1..Len(flights), settled \in FetchOutcomes({FetchResponse}) :
          Settle(i, settled)
    \/ \E i \in 1..Len(flights), result \in JobResults : RunJob(i, result)
    \/ \E i \in 1..Len(flights), observer \in RecordObservers : RunRecord(i, observer)
    \/ \E i \in 1..Len(flights) : Deliver(i)

SpecPipeline == Init /\ [][NextPipeline]_vars

\* requests in flight together, while mocks are registered and cleared
FlightUrls == {R_a, R_aq}

FlightMethods == {"", "PUT"}

FlightBodies(method) == IF method = "PUT" THEN {B_b} ELSE {NoValue}

FlightPipelines == {<<>>, <<FALSE>>}

FlightObservers == {"absent", "handled"}

FlightHandlerReturns == {Nothing, M_200}

FlightJobResults == {"returns received", "throws"}

\* what is set on these requests after they were sent: put()
FlightChained == {[name |-> "method", value |-> "PUT"]}

\* a stage of the chain of flight i runs
Advance(i) ==
    \/ \E settled \in FetchOutcomes({FetchResponse}) : Settle(i, settled)
    \/ \E result \in FlightJobResults : RunJob(i, result)
    \/ \E observer \in FlightObservers : RunRecord(i, observer)
    \/ Deliver(i)

NextFlights ==
    \/ \E handler \in {"h1"} : Mock("GET", R_a, handler)
    \/ ClearMocks
    \/ \E set \in {TRUE} : SetOnUnmockedRequest(set)
    \/ \E url \in FlightUrls, method \in FlightMethods, pipeline \in FlightPipelines :
          \E body \in FlightBodies(method), hret \in FlightHandlerReturns :
             Send(url, [method |-> method, body |-> body], pipeline, hret, Nothing)
    \/ \E j \in 1..Len(flights), hret \in FlightHandlerReturns :
          SendSharing(j, PlainRequest, flights[j].url, flights[j].pipeline, hret, Nothing)
    \/ \E i \in 1..Len(flights), c \in FlightChained :
          ChainAfterRequest(i, c.name, c.value)
    \/ \E i \in 1..Len(flights) : Advance(i)

SpecFlights == Init /\ [][NextFlights]_vars

\* every settled promise has its reactions run, and fetch settles its promise
FairFlights == \A i \in 1..MaxFlights : WF_vars(i <= Len(flights) /\ Advance(i))

SpecFlightsFair == SpecFlights /\ FairFlights

(***************************************************************************)
(* The registry and its flag: mocks registered one by one under method      *)
(* names of any letter case, or from a request map, and cleared.            *)
(***************************************************************************)
RegistryMethods == {"Get", "POST", "put", "DELETE", "delete"}

RegistryUrls == {R_a}

NextRegistry ==
    \/ \E method \in RegistryMethods, url \in RegistryUrls, handler \in {"h1"} :
          Mock(method, url, handler)
    \/ MockRecorded
    \/ ClearMocks
    \/ \E set \in BOOLEAN : SetOnUnmockedRequest(set)
    \/ \E url \in {R_b}, method \in {"", "PUT"} :
          /\ Len(recorded) < MaxSessionRecords
          /\ Record(url, [method |-> method, body |-> NoValue], "absent", Undefined)
    \/ \E url \in {R_a, R_b}, method \in {"", "PUT"}, hret \in {Nothing, M_200} :
          Request(url, [method |-> method, body |-> NoValue], hret, Nothing)

SpecRegistry == Init /\ [][NextRegistry]_vars


(***************************************************************************)
(* Runs of the request builder: pipelines and defaults, and requests made   *)
(* from the option objects of a caller.                                     *)
(***************************************************************************)
\* the headers of setHttpDefaults({ headers })
AppHeaders == Headers({<<"app_version", "1">>})

\* the job functions
JobFns == {"f"}

\* the arguments of setHttpDefaults: headers or not, and the array build()
\* returned or no pipeline
NewDefaults ==
    {[headers |-> h, responsePipeline |-> p] :
        h \in {NoHeaders, AppHeaders}, p \in {NoRef, client.built}}

\* pipelines are built, made the default, and requests constructed
NextDefaults ==
    \/ \E fn \in JobFns : BuildResponsePipeline(fn)
    \/ \E fn \in JobFns : BuilderThen(fn)
    \/ \E fn \in JobFns : BuilderCatch(fn)
    \/ BuilderSetDefault
    \/ BuilderBuild
    \/ \E newDefaults \in NewDefaults : SetHttpDefaults(newDefaults)
    \/ HttpNoOpts

SpecDefaults == Init /\ [][NextDefaults]_vars

\* a chainable function of the request r is called
ChainCall(r) ==
    \/ post(r)
    \/ put(r)
    \/ del(r)
    \/ withBody(r, "b", "text/plain")
    \/ accept(r, "application/json")
    \/ withCreds(r, "include")

\* requests are constructed from the option objects of the caller, and built
NextDescriptor ==
    \/ \E fn \in JobFns : BuildResponsePipeline(fn)
    \/ BuilderBuild
    \/ \E headers \in {AppHeaders} :
          SetHttpDefaults([headers |-> headers, responsePipeline |-> NoRef])
    \/ \E noHeaderDefaults \in {Absent, "true"}, responsePipeline \in {NoRef, client.built} :
          NewOpts(noHeaderDefaults, responsePipeline)
    \/ \E o \in 1..Len(client.objects) : Http(o)
    \/ \E r \in 1..Len(client.requests) : ChainCall(r)

SpecDescriptor == Init /\ [][NextDescriptor]_vars

(***************************************************************************)
(* Notions the properties are stated with.                                 *)
(***************************************************************************)
\* a call of request() has just run: no operation has touched the http object
\* since, so mockMap and onUnmockedRequest are those the call saw
Done == last.phase = "done"

\* the keys registered for the method of the last request, with their handlers
Entries == mockMap[last.method]

\* the slash-delimited path segments of a url or key, its query string ignored
PathSegments(url) == Split(Split(url, "?")[1], "/")

\* a pattern key: some path segment begins with a colon
IsPatternKey(key) ==
    \E j \in 1..Len(PathSegments(key)) : IsParamPart(PathSegments(key)[j])

\* the key's query parameters are all supplied, with === values, by the url's own
\* query string
QuerySupplied(key, url) ==
    \A name \in DOMAIN getQueryParams(key) :
        /\ Has(getQueryParams(url), name)
        /\ StrictEquals(getQueryParams(url)[name], getQueryParams(key)[name])

\* a pattern key structurally matches a url: same number of segments, equal
\* literal segments, and the key's query parameters supplied by the url
StructuralMatch(key, url) ==
    /\ IsPatternKey(key)
    /\ Len(PathSegments(key)) = Len(PathSegments(url))
    /\ QuerySupplied(key, url)
    /\ \A j \in 1..Len(PathSegments(key)) :
          IsParamPart(PathSegments(key)[j]) \/ PathSegments(key)[j] = PathSegments(url)[j]

\* a handler, or the observer, returned a response marker
IsMarker(r) == r # Nothing /\ r # Throws

\* the request of the log is in the unmocked traffic map
InUnmocked ==
    /\ HasProperty(unmockedMap[last.method], last.url)
    /\ last.method \in {"post", "put"} =>
          HasProperty(GetProperty(unmockedMap[last.method], last.url).v,
                      PropertyName(last.body))

\* the unmatched handling ran for the request of the log: with an observer set it
\* was called once with (method, url, body) and the request is in the unmocked
\* map; with none, nothing was called
WentUnmatched ==
    IF onUnmockedRequest
    THEN /\ last.observed = <<[method |-> last.method, url |-> last.url,
                               body |-> last.body]>>
         /\ InUnmocked
    ELSE last.observed = <<>> /\ last.fetch = 1

(***************************************************************************)
(* C1.                                                                     *)
(***************************************************************************)
\* C1: a request to a url that is registered, for the request's method, as an
\* exact key (no colon segment) invokes that key's handler exactly once, found
\* by the exact lookup, and invokes no handler of a pattern key.
C1_ExactKeyInvokedOnce ==
    (Done /\ hasMocks /\ HasKey(Entries, last.url) /\ ~IsPatternKey(last.url)) =>
        /\ Len(last.calls) = 1
        /\ last.calls[1].via = "exact"
        /\ last.calls[1].key = last.url
        /\ last.calls[1].handler = HandlerOf(Entries, last.url)

(***************************************************************************)
(* C2.                                                                     *)
(***************************************************************************)
\* the marker the log resolved, and whether it is resolved
Resolving == last.hret
IsResolved == last.phase = "resolved"
FulfilledWith(value, status) ==
    last.ret = "promise" /\ last.value = value /\ last.status = status

\* C2 as stated: with status 200 the marker fulfils with the JSON-decoded body,
\* except that the body "OK" fulfils with undefined; with any other status it
\* fulfils with an object carrying only the status, the body never decoded.
C2_ResolutionAsStated ==
    IsResolved =>
        IF Resolving.status = 200
        THEN IF Resolving.body = OK THEN FulfilledWith(Undefined, 0)
             ELSE /\ Resolving.body # NoValue
                  /\ JsonParse(Resolving.body) # SyntaxError
                  /\ FulfilledWith(JsonParse(Resolving.body), 0)
        ELSE FulfilledWith(StatusObject(Resolving.status), Resolving.status)

\* C2 amended: with status 200, the body "OK", the empty body and the absent
\* body fulfil with undefined, a body that is valid JSON text fulfils with its
\* decoded value, and any other body makes the resolution throw the decode
\* error; with any other status it fulfils with an object carrying only the
\* status, the body never decoded (404 "nf" gives status 404, no error).
C2_Resolution ==
    IsResolved =>
        /\ (Resolving.status = 200 /\ Resolving.body \in {OK, <<>>, NoValue}) =>
              FulfilledWith(Undefined, 0)
        /\ (Resolving.status = 200 /\ Resolving.body \notin {OK, <<>>, NoValue}) =>
              IF JsonParse(Resolving.body) = SyntaxError
              THEN last.ret = "throw"
              ELSE FulfilledWith(JsonParse(Resolving.body), 0)
        /\ Resolving = Marker(200, <<"8">>) => FulfilledWith(Num(<<"8">>), 0)
        /\ Resolving = Marker(200, <<"\"", "d", "\"">>) => FulfilledWith(Str(<<"d">>), 0)
        /\ Resolving.status # 200 =>
              FulfilledWith(StatusObject(Resolving.status), Resolving.status)

\* a 404 marker whose body is no JSON text was resolved to { status: 404 }
C2_Witness ==
    /\ IsResolved
    /\ Resolving = Marker(404, <<"n", "f">>)
    /\ FulfilledWith(StatusObject(404), 404)

(***************************************************************************)
(* C3.                                                                     *)
(***************************************************************************)
\* C3: in a call of request(), fetch is not called when a handler or the
\* observer returned a response marker, and is called exactly once when neither
\* returned one (none was invoked, or each one invoked returned nothing).
C3_FetchExactlyWhenNoMarker ==
    Done =>
        /\ (IsMarker(last.hret) \/ IsMarker(last.oret)) => last.fetch = 0
        /\ (last.hret = Nothing /\ last.oret = Nothing) => last.fetch = 1

(***************************************************************************)
(* C4.                                                                     *)
(***************************************************************************)
\* the first key, in the order of the registry, that structurally matches the
\* url (0: none)
FirstStructuralMatch(entries, url) ==
    IF \E i \in 1..Len(entries) : StructuralMatch(entries[i].url, url)
    THEN CHOOSE i \in 1..Len(entries) :
            /\ StructuralMatch(entries[i].url, url)
            /\ \A k \in 1..(i - 1) : ~StructuralMatch(entries[k].url, url)
    ELSE 0

\* C4: the pattern search invokes at most one handler, that of the first key in
\* registration order that structurally matches the url; when that handler
\* declines, the request goes to the unmatched handling.
C4_FirstStructuralMatchOnly ==
    (Done /\ last.calls # <<>> /\ last.calls[1].via = "pattern") =>
        /\ Len(last.calls) = 1
        /\ FirstStructuralMatch(Entries, last.url) # 0
        /\ last.calls[1].key = Entries[FirstStructuralMatch(Entries, last.url)].url
        /\ last.calls[1].handler =
              Entries[FirstStructuralMatch(Entries, last.url)].handler
        /\ last.hret = Nothing => WentUnmatched

(***************************************************************************)
(* C5.                                                                     *)
(***************************************************************************)
\* C5: when the url, or the url without its query string, is a registered key
\* and its handler declined, the scan looked at no key, no other handler was
\* invoked, and the request went to the unmatched handling.
C5_DeclinedExactGoesUnmatched ==
    (/\ Done
     /\ HasKey(Entries, last.url) \/ HasKey(Entries, Split(last.url, "?")[1])
     /\ last.calls # <<>>
     /\ last.hret = Nothing) =>
        /\ Len(last.calls) = 1
        /\ last.calls[1].via = "exact"
        /\ last.scanned = <<>>
        /\ WentUnmatched

\* an exact handler declined while a pattern key that structurally matches the
\* url was registered too, and the observer was called
C5_Witness ==
    /\ Done
    /\ last.calls # <<>>
    /\ last.calls[1].via = "exact"
    /\ last.hret = Nothing
    /\ FirstStructuralMatch(Entries, last.url) # 0
    /\ last.observed # <<>>

(***************************************************************************)
(* C6.                                                                     *)
(***************************************************************************)
\* C6: the pattern search never selects a key whose number of path segments
\* differs from that of the url.
C6_SegmentCountMismatchNeverSelected ==
    Done =>
        \A c \in 1..Len(last.calls) :
            last.calls[c].via = "pattern" =>
                Len(PathSegments(last.calls[c].key)) = Len(PathSegments(last.url))

\* the literal segments the key and the url have at the same positions are equal
SharesLiterals(key, url) ==
    \A j \in 1..Len(PathSegments(key)) :
        (j <= Len(PathSegments(url)) /\ ~IsParamPart(PathSegments(key)[j])) =>
            PathSegments(key)[j] = PathSegments(url)[j]

\* the scan looked at a pattern key that agrees with the url on every literal
\* segment they share but has another number of segments, and invoked nothing
C6_Witness ==
    /\ Done
    /\ last.calls = <<>>
    /\ last.ret # "throw"
    /\ \E i \in 1..Len(last.scanned) :
          /\ IsPatternKey(last.scanned[i])
          /\ SharesLiterals(last.scanned[i], last.url)
          /\ Len(PathSegments(last.scanned[i])) # Len(PathSegments(last.url))

(***************************************************************************)
(* C7.                                                                     *)
(***************************************************************************)
\* the value a segment of the model's urls is captured as: 8 is the number 8,
\* %22d%22 decodes to "d", JSON for the string d, and x and p are no JSON and
\* stay strings
ExpectedCapture(segment) ==
    CASE segment = <<"8">> -> Num(<<"8">>)
      [] segment = <<"%", "2", "2", "d", "%", "2", "2">> -> Str(<<"d">>)
      [] segment = <<"x">> -> Str(<<"x">>)
      [] segment = <<"p">> -> Str(<<"p">>)
      [] OTHER -> parseParam(segment)

\* C7: the params a handler selected by the pattern search receives hold, for
\* every colon segment of its key, under the segment's name without the colon,
\* the url's segment at that position, percent-decoded and JSON-parsed when it
\* is JSON, a string otherwise.
C7_PatternCaptures ==
    Done =>
        \A c \in 1..Len(last.calls) :
            last.calls[c].via = "pattern" =>
                \A j \in 1..Len(PathSegments(last.calls[c].key)) :
                    IsParamPart(PathSegments(last.calls[c].key)[j]) =>
                        /\ Has(last.calls[c].params,
                               Tail(PathSegments(last.calls[c].key)[j]))
                        /\ last.calls[c].params[Tail(PathSegments(last.calls[c].key)[j])]
                              = ExpectedCapture(PathSegments(last.url)[j])

\* /p/:i matched /p/8 and its handler received params.i, the number 8
C7_Witness ==
    /\ Done
    /\ last.url = U_p8
    /\ Len(last.calls) = 1
    /\ last.calls[1].via = "pattern"
    /\ last.calls[1].key = K_pI
    /\ last.calls[1].params[<<"i">>] = Num(<<"8">>)

(***************************************************************************)
(* C8.                                                                     *)
(***************************************************************************)
\* C8: a pattern key with query parameters is selected only for urls whose own
\* query string supplies each of them with an equal parsed value.
C8_QueryKeyOnlyForOwnQuery ==
    Done =>
        \A c \in 1..Len(last.calls) :
            last.calls[c].via = "pattern" => QuerySupplied(last.calls[c].key, last.url)

(***************************************************************************)
(* C9.                                                                     *)
(***************************************************************************)
\* C9: whenever request() ends without a handler having produced a response
\* (also when no mock is registered) and an observer is set, the observer was
\* called once with (method, url, body).
C9_UnhandledReachesObserver ==
    (Done /\ ~IsMarker(last.hret) /\ onUnmockedRequest
          /\ (last.ret = "throw" => last.oret = Throws)) =>
        last.observed = <<[method |-> last.method, url |-> last.url,
                           body |-> last.body]>>

(***************************************************************************)
(* C10.                                                                    *)
(***************************************************************************)
\* C10: a request made while a mock is registered, for which no handler
\* produced a response marker, is in the unmocked traffic map afterwards,
\* whether or not an observer is set.
C10_UnmatchedIsRecorded ==
    (Done /\ hasMocks /\ ~IsMarker(last.hret)
          /\ (last.ret = "throw" => last.oret = Throws)) =>
        InUnmocked

(***************************************************************************)
(* C11.                                                                    *)
(***************************************************************************)
\* C11: a call of request() made while hasMocks is false invokes no handler,
\* does not call the observer, leaves the unmocked traffic map as it was, and
\* calls fetch.
C11_NoMocksSkipsInterception ==
    [][(~hasMocks /\ nreq' = nreq + 1) =>
          /\ last'.calls = <<>>
          /\ last'.scanned = <<>>
          /\ last'.observed = <<>>
          /\ unmockedMap' = unmockedMap
          /\ last'.fetch = 1]_vars

\* a request was made with no mock registered while an observer was set, and
\* went to fetch
C11_Witness ==
    /\ Done
    /\ ~hasMocks
    /\ onUnmockedRequest
    /\ last.fetch = 1

(***************************************************************************)
(* C12.                                                                    *)
(***************************************************************************)
\* C12: when the observer throws for an unmatched request, request() throws
\* and fetch is not called.
C12_ObserverThrowsNoFetch ==
    (Done /\ last.oret = Throws) => (last.ret = "throw" /\ last.fetch = 0)

\* the observer was called for an unmatched request and threw
C12_Witness ==
    /\ Done
    /\ last.observed # <<>>
    /\ last.oret = Throws
    /\ last.fetch = 0

(***************************************************************************)
(* C20.                                                                    *)
(***************************************************************************)
\* C20: decoding a query or path parameter never throws: no call of request()
\* ends with the URIError of decodeURIComponent.
C20_DecodingNeverThrows ==
    Done => ~(last.ret = "throw" /\ last.value = Thrown)

(***************************************************************************)
(* C24.                                                                    *)
(***************************************************************************)
\* C24: the exact lookup takes the full url first and the url without its query
\* string second. When the full url is a registered key its handler is the only
\* one invoked, also when both keys are registered and also when it declines;
\* the handler of the url without query string is invoked only when the full
\* url is not a registered key.
C24_FullUrlBeforeBaseUrl ==
    Done =>
        \A c \in 1..Len(last.calls) :
            /\ HasKey(Entries, last.url) =>
                  /\ Len(last.calls) = 1
                  /\ last.calls[c].via = "exact"
                  /\ last.calls[c].key = last.url
                  /\ last.calls[c].handler = HandlerOf(Entries, last.url)
            /\ (last.calls[c].key = Split(last.url, "?")[1]
                   /\ last.url # Split(last.url, "?")[1]) =>
                  ~HasKey(Entries, last.url)

\* /p/8?t=: and /p/8 are both registered with different handlers, the request
\* of /p/8?t=: invoked the handler of the full url alone, and it declined
C24_Witness ==
    /\ Done
    /\ last.url = U_p8c
    /\ HasKey(Entries, K_p8c)
    /\ HasKey(Entries, K_p8)
    /\ HandlerOf(Entries, K_p8c) # HandlerOf(Entries, K_p8)
    /\ Len(last.calls) = 1
    /\ last.calls[1].key = K_p8c
    /\ last.calls[1].handler = HandlerOf(Entries, K_p8c)
    /\ last.hret = Nothing

(***************************************************************************)
(* C25.                                                                    *)
(***************************************************************************)
\* C25: a key none of whose path segments begins with a colon is never selected
\* by the pattern search: every handler the pattern search invokes is stored
\* under a key with a colon-prefixed path segment.
C25_LiteralKeyNeverPatternSelected ==
    Done =>
        \A c \in 1..Len(last.calls) :
            last.calls[c].via = "pattern" => IsPatternKey(last.calls[c].key)

(***************************************************************************)
(* C30.                                                                    *)
(***************************************************************************)
\* the captures of a key's own colon segments, from segment j on, added to params
RECURSIVE OwnCaptures(_, _, _, _)
OwnCaptures(j, keyParts, urlParts, params) ==
    IF j > Len(keyParts) THEN params
    ELSE IF IsParamPart(keyParts[j])
    THEN OwnCaptures(j + 1, keyParts, urlParts,
                     Put(params, Tail(keyParts[j]), parseParam(urlParts[j])))
    ELSE OwnCaptures(j + 1, keyParts, urlParts, params)

\* C30: the params a handler selected by the pattern search receives are exactly
\* the parsed query parameters of the incoming url plus the captures of the
\* selected key's own colon segments, and nothing captured while scanning
\* earlier keys that were rejected.
C30_ParamsOfSelectedKeyOnly ==
    Done =>
        \A c \in 1..Len(last.calls) :
            last.calls[c].via = "pattern" =>
                last.calls[c].params =
                    OwnCaptures(1, PathSegments(last.calls[c].key),
                                PathSegments(last.url), getQueryParams(last.url))

(***************************************************************************)
(* Notions of the recorder's properties.                                   *)
(***************************************************************************)
\* the orders a log of n requests can be replayed in
Orders(n) == {p \in [1..n -> 1..n] : \A i, j \in 1..n : p[i] = p[j] => i = j}

\* the request catcher of a session that records the entries of log in the
\* order p, from the i-th on
RECURSIVE RecordInOrder(_, _, _, _)
RecordInOrder(catcher, log, p, i) ==
    IF i > Len(log) THEN catcher
    ELSE RecordInOrder(DefaultRecord(catcher, log[p[i]].method, log[p[i]].url,
                                     log[p[i]].body),
                       log, p, i + 1)

\* the unmocked map of a session in which the unmatched handling stores the
\* requests of log in the order p, from the i-th on
RECURSIVE StoreInOrder(_, _, _, _)
StoreInOrder(map, log, p, i) ==
    IF i > Len(log) THEN map
    ELSE StoreInOrder(RecordUnmocked(map, log[p[i]].method, log[p[i]].url,
                                     log[p[i]].body),
                      log, p, i + 1)

\* a traffic map holds the entry of (method, url, body)
HoldsEntry(map, method, url, body) ==
    /\ HasProperty(map[method], url)
    /\ method \in {"post", "put"} =>
          HasProperty(GetProperty(map[method], url).v, PropertyName(body))

\* the keys are in ascending order
Ascending(keys) == \A i \in 1..(Len(keys) - 1) : StringLess(keys[i], keys[i + 1])

\* the text of a dump lists the sections delete, get, post, put in this order,
\* the urls of every section in ascending order and, in the post and the put
\* section, the bodies of every url in ascending order
WellSorted(parsed) ==
    /\ parsed # SyntaxError
    /\ ObjectKeys(parsed.v) =
          <<MethodKey("delete"), MethodKey("get"), MethodKey("post"), MethodKey("put")>>
    /\ \A i \in 1..4 : Ascending(ObjectKeys(parsed.v[i].v.v))
    /\ \A i \in 3..4 :
          \A j \in 1..Len(parsed.v[i].v.v) : Ascending(ObjectKeys(parsed.v[i].v.v[j].v.v))

(***************************************************************************)
(* C13.                                                                    *)
(***************************************************************************)
\* C13: clearMocks() leaves the recorded traffic map and the unmocked traffic
\* map as they were and empties the registry, and every handler a call of
\* request() invokes is registered, under the key it was found by, when the
\* call is made: none that a clear removed is invoked later.
C13_ClearKeepsTrafficDropsHandlers ==
    /\ [][last'.phase = "cleared" =>
             /\ requestCatcher' = requestCatcher
             /\ unmockedMap' = unmockedMap
             /\ mockMap' = EmptyMockMap
             /\ ~hasMocks']_vars
    /\ [](Done => /\ (~hasMocks => last.calls = <<>>)
                  /\ \A c \in 1..Len(last.calls) :
                        /\ HasKey(Entries, last.calls[c].key)
                        /\ HandlerOf(Entries, last.calls[c].key) = last.calls[c].handler)

\* a request was made after a clear that followed the recording of traffic in
\* both maps: its url was registered before the clear, and no handler ran
C13_Witness ==
    /\ Done
    /\ ~hasMocks
    /\ requestCatcher # EmptyMap
    /\ unmockedMap # EmptyMap
    /\ HasProperty(requestMap[last.method], last.url)
    /\ last.calls = <<>>
    /\ last.fetch = 1

(***************************************************************************)
(* C14.                                                                    *)
(***************************************************************************)
\* the registry holds the handlers of the dump of the request catcher as it is
Replayable ==
    hasMocks /\ requestMap = RequestMapOf(JsonParse(dumpRequestMap(requestCatcher)))

\* C14: once the parsed dump of the request catcher is registered with
\* http.mock(map), a request whose method, url (as record stores it) and body
\* are recorded is answered by a mock with the marker [200, "OK"]: it reaches
\* neither the unmatched handling nor fetch.
C14_RoundTrip ==
    (Done /\ Replayable
          /\ HoldsEntry(requestCatcher, last.method, RecordedUrl(last.url), last.body)) =>
        /\ Len(last.calls) = 1
        /\ last.hret = Marker(200, OK)
        /\ last.ret = "promise"
        /\ last.observed = <<>>
        /\ last.fetch = 0

(***************************************************************************)
(* C15.                                                                    *)
(***************************************************************************)
\* C15: a session that records the entries of this session in any other order
\* gets the same text from dumpRequestMap().
C15_DumpOrderInsensitive ==
    \A p \in Orders(Len(recorded)) :
        dumpRequestMap(RecordInOrder(EmptyMap, recorded, p, 1))
            = dumpRequestMap(requestCatcher)

(***************************************************************************)
(* C16.                                                                    *)
(***************************************************************************)
\* C16: the texts of dumpRequestMap() and dumpUnmockedRequestMap() list the
\* sections in the order delete, get, post, put, the urls of each section in
\* ascending order, and the bodies under each url of the post and put sections
\* in ascending order.
C16_DumpsAreSorted ==
    /\ WellSorted(JsonParse(dumpRequestMap(requestCatcher)))
    /\ WellSorted(JsonParse(dumpUnmockedRequestMap(unmockedMap)))

(***************************************************************************)
(* C17.                                                                    *)
(***************************************************************************)
\* C17: a session in which the unmatched requests of this session are
\* dispatched in any other order gets the same text from
\* dumpUnmockedRequestMap().
C17_UnmockedDumpOrderInsensitive ==
    \A p \in Orders(Len(unmockedLog)) :
        dumpUnmockedRequestMap(StoreInOrder(EmptyMap, unmockedLog, p, 1))
            = dumpUnmockedRequestMap(unmockedMap)

(***************************************************************************)
(* C18.                                                                    *)
(***************************************************************************)
\* C18: every request the default recording stored keeps its entry, with the
\* value "OK": for post and put one entry per body under the url, which a later
\* recording with another body neither removes nor overwrites.
C18_OneEntryPerBody ==
    \A i \in 1..Len(recorded) :
        /\ HoldsEntry(requestCatcher, recorded[i].method, recorded[i].url, recorded[i].body)
        /\ IF recorded[i].method \in {"post", "put"}
           THEN GetProperty(GetProperty(requestCatcher[recorded[i].method],
                                        recorded[i].url).v,
                            PropertyName(recorded[i].body)) = Str(OK)
           ELSE GetProperty(requestCatcher[recorded[i].method], recorded[i].url) = Str(OK)

\* two POST requests to one url with different bodies were recorded, and the
\* url holds both bodies
C18_Witness ==
    /\ Len(recorded) = 2
    /\ recorded[1].method = "post" /\ recorded[2].method = "post"
    /\ recorded[1].url = recorded[2].url
    /\ recorded[1].body # recorded[2].body
    /\ Len(GetProperty(requestCatcher["post"], recorded[1].url).v) = 2

(***************************************************************************)
(* C19.                                                                    *)
(***************************************************************************)
\* C19: a call of record whose observer returns true leaves the request catcher
\* as it was; a call with no observer, or one that returns a falsy value, adds
\* the entry of the request.
C19_ObserverSuppressesRecording ==
    [][last'.phase = "recorded" =>
          IF last'.recorder = "handled"
          THEN requestCatcher' = requestCatcher
          ELSE HoldsEntry(requestCatcher', last'.method,
                          IF recordQueryParams THEN last'.url
                          ELSE Split(last'.url, "?")[1],
                          last'.body)]_vars

\* record ran with an observer that returned true, for a request the catcher
\* does not hold, after another request was recorded
C19_Witness ==
    /\ last.phase = "recorded"
    /\ last.recorder = "handled"
    /\ requestCatcher # EmptyMap
    /\ ~HoldsEntry(requestCatcher, last.method, last.url, last.body)

(***************************************************************************)
(* C23.                                                                    *)
(***************************************************************************)
\* the leaves of a traffic map: per method, url and (for post and put) body key,
\* the value stored
Leaves(map) ==
    UNION {UNION {IF m \in {"post", "put"}
                  THEN {<<m, map[m][i].k, map[m][i].v.v[j].k, map[m][i].v.v[j].v>> :
                           j \in 1..Len(map[m][i].v.v)}
                  ELSE {<<m, map[m][i].k, NoValue, map[m][i].v>>} :
                  i \in 1..Len(map[m])} :
           m \in Methods}

\* C23: under the default recording every leaf of the request catcher is the
\* string "OK", whatever the recorded responses were: under the url for get and
\* delete, under every body of the url for post and put.
C23_LeavesAreOK ==
    \A leaf \in Leaves(requestCatcher) : leaf[4] = Str(OK)

\* a response with a payload was recorded by the default recording, the
\* observer having declined, and the entry of its request is in the catcher
C23_Witness ==
    /\ last.phase = "recorded"
    /\ last.recorder = "declined"
    /\ last.value = Num(B_8)
    /\ last.method = "put"
    /\ HoldsEntry(requestCatcher, last.method, Split(last.url, "?")[1], last.body)
    /\ Cardinality(Leaves(requestCatcher)) = 2

(***************************************************************************)
(* C27.                                                                    *)
(***************************************************************************)
\* C27: the default recording stores a request under its url without the query
\* string when recordQueryParams is false, so that a request that differs from
\* a recorded one only in its query string adds no entry, and under its full
\* url when recordQueryParams is true, so that such a request gets an entry of
\* its own. The call adds that one entry and nothing else.
C27_QueryStringInRecordedKey ==
    [][(last'.phase = "recorded" /\ last'.recorder # "handled") =>
          /\ Leaves(requestCatcher') =
                Leaves(requestCatcher) \cup
                   {<<last'.method,
                      IF recordQueryParams THEN last'.url ELSE Split(last'.url, "?")[1],
                      IF last'.method \in {"post", "put"}
                      THEN PropertyName(last'.body) ELSE NoValue,
                      Str(OK)>>}]_vars

\* with recordQueryParams false /a and /a?t=% were recorded and share the one
\* entry of /a
C27_Witness ==
    /\ last.phase = "recorded"
    /\ ~recordQueryParams
    /\ last.url = R_aq
    /\ Len(recorded) = 2
    /\ recorded[1] = recorded[2]
    /\ Cardinality(Leaves(requestCatcher)) = 1

(***************************************************************************)
(* C28.                                                                    *)
(***************************************************************************)
\* C28: the content of the request catcher after the requests of a session have
\* completed is the same for every order in which they complete: recording
\* the same requests in any other order gives the same leaves.
C28_ContentOrderInsensitive ==
    \A p \in Orders(Len(recorded)) :
        Leaves(RecordInOrder(EmptyMap, recorded, p, 1)) = Leaves(requestCatcher)

\* two requests to different urls completed, and the other order of completion
\* gives a catcher whose keys are in another order
C28_Witness ==
    /\ Len(recorded) = 2
    /\ recorded[1].method = recorded[2].method
    /\ recorded[1].url # recorded[2].url
    /\ ObjectKeys(RecordInOrder(EmptyMap, recorded, <<2, 1>>, 1)[recorded[1].method])
          # ObjectKeys(requestCatcher[recorded[1].method])

(***************************************************************************)
(* C21.                                                                    *)
(***************************************************************************)
\* the promise the stage k of a flight waited for, once it is settled: what the
\* last stage that ran before k gave, or the first promise of the chain
Before(f, k) ==
    LET earlier == {e \in 1..Len(f.ran) : f.ran[e].stage < k}
    IN  IF earlier # {}
        THEN f.ran[CHOOSE e \in earlier : \A d \in earlier : d <= e].gave
        ELSE IF f.ran # <<>> THEN f.ran[1].got ELSE f.at

\* the first promise of a chain, settled
FirstSettled(f) ==
    IF f.mocked THEN {Settled("fulfilled", f.answer)}
    ELSE {Settled("fulfilled", FetchResponse), Settled("rejected", NetworkError)}

\* C21: the jobs of a request's pipeline run in the order of the pipeline, each
\* at most once. A normal job runs exactly when the outcome before it is
\* fulfilled and receives its value, an error job exactly when it is rejected
\* and receives its reason; a job that returns leaves a fulfilled outcome, one
\* that throws a rejected one, and that is what the following stages see.
C21_JobsRunInOrderOnTheirTrack ==
    \A i \in 1..Len(flights) :
        /\ \A e \in 1..(Len(flights[i].ran) - 1) :
              /\ flights[i].ran[e].stage < flights[i].ran[e + 1].stage
              /\ flights[i].ran[e + 1].got = flights[i].ran[e].gave
        /\ flights[i].ran # <<>> => flights[i].ran[1].got \in FirstSettled(flights[i])
        /\ \A e \in 1..Len(flights[i].ran) :
              flights[i].ran[e].stage <= Len(flights[i].pipeline) =>
                 /\ flights[i].ran[e].got.state =
                       IF flights[i].pipeline[flights[i].ran[e].stage]
                       THEN "rejected" ELSE "fulfilled"
                 /\ \E result \in JobResults :
                       flights[i].ran[e].gave =
                          JobOutcome(flights[i].ran[e].stage, result, flights[i].ran[e].got)
        /\ \A k \in 1..Len(flights[i].pipeline) :
              (k < flights[i].pc /\ \A e \in 1..Len(flights[i].ran) :
                                       flights[i].ran[e].stage # k) =>
                 Before(flights[i], k).state =
                    IF flights[i].pipeline[k] THEN "fulfilled" ELSE "rejected"

\* a pipeline of a normal job, an error job and a normal job: the first threw,
\* the error job received its reason and returned, and the third job ran with
\* what the error job returned
C21_Witness ==
    \E i \in 1..Len(flights) :
        /\ flights[i].pipeline = <<FALSE, TRUE, FALSE>>
        /\ Len(flights[i].ran) >= 3
        /\ flights[i].ran[1].gave = Settled("rejected", ThrownBy(1))
        /\ flights[i].ran[2].stage = 2
        /\ flights[i].ran[2].got = Settled("rejected", ThrownBy(1))
        /\ flights[i].ran[3].stage = 3
        /\ flights[i].ran[3].got = Settled("fulfilled", Returned(2))

(***************************************************************************)
(* C22.                                                                    *)
(***************************************************************************)
\* the keys of a traffic map: method, url and, for post and put, body
LeafKeys(map) == {<<leaf[1], leaf[2], leaf[3]>> : leaf \in Leaves(map)}

\* C22: no operation removes a key from the recorded traffic map or from the
\* unmocked traffic map: a key (method, url, and body for post and put) that
\* is in a map before a step is in it after the step.
C22_TrafficMapsAppendOnly ==
    [][/\ LeafKeys(requestCatcher) \subseteq LeafKeys(requestCatcher')
       /\ LeafKeys(unmockedMap) \subseteq LeafKeys(unmockedMap')]_vars

\* two requests were recorded and two went unmatched, all four keys are in the
\* maps, and the mocks were cleared afterwards
C22_Witness ==
    /\ Cardinality(LeafKeys(requestCatcher)) = 2
    /\ Cardinality(LeafKeys(unmockedMap)) = 2
    /\ ~hasMocks
    /\ last.phase = "cleared"

(***************************************************************************)
(* C26.                                                                    *)
(***************************************************************************)
\* the flight went through the stage of http.record with a fulfilled promise
PastRecord(f) == f.pc > RecordStage(f) /\ f.at.state = "fulfilled"

\* the caller's continuation has observed the promise of the flight
Delivered(f) == f.pc > CallerStage(f)

\* C26: a request, mocked or sent to fetch, whose promise is fulfilled after
\* the last job of its pipeline is recorded before its caller observes the
\* result: http.record ran once, after every job that ran and with the value
\* the pipeline left, and unless the observer handled the recording the
\* request catcher holds the entry of the request, under the method it was sent
\* with, the url as record keys it and (for post and put) its body. And every request in flight
\* is eventually delivered to its caller.
C26_FulfilledDispatchIsRecorded ==
    /\ [](\A i \in 1..Len(flights) :
             PastRecord(flights[i]) =>
                /\ flights[i].recorder # ""
                /\ \E e \in 1..Len(flights[i].ran) :
                      /\ flights[i].ran[e].stage = RecordStage(flights[i])
                      /\ flights[i].ran[e].got = flights[i].at
                      /\ \A d \in 1..Len(flights[i].ran) :
                            /\ flights[i].ran[d].stage <= Len(flights[i].pipeline) => d < e
                            /\ flights[i].ran[d].stage = CallerStage(flights[i]) => d > e
                            /\ flights[i].ran[d].stage = RecordStage(flights[i]) => d = e
                /\ flights[i].recorder # "handled" =>
                      HoldsEntry(requestCatcher, MethodOf(flights[i].sent),
                                 IF recordQueryParams THEN flights[i].url
                                 ELSE Split(flights[i].url, "?")[1],
                                 flights[i].sent.body))
    /\ \A i \in 1..MaxFlights :
          (i <= Len(flights)) ~> (i <= Len(flights) /\ Delivered(flights[i]))

\* what the code does instead: record reads the url, the method and the body of
\* the request when it runs, so the entry is under what the request holds at
\* that moment, which a put() called after request() has changed
C26_RecordedAsHeldWhenRecordRuns ==
    [][\A i \in 1..Len(flights) :
          (/\ flights[i].pc = RecordStage(flights[i])
           /\ flights'[i].pc > RecordStage(flights[i])
           /\ flights'[i].recorder \notin {"", "handled"}) =>
             HoldsEntry(requestCatcher', MethodOf(flights[i].opts),
                        IF recordQueryParams THEN flights[i].url
                        ELSE Split(flights[i].url, "?")[1],
                        flights[i].opts.body)]_vars

(***************************************************************************)
(* C29.                                                                    *)
(***************************************************************************)
\* C29: the mock decision is made inside request(): the handler invoked is
\* registered when the call is made, the unmatched request is in the unmocked
\* map when the call returns, and the promise returned is the mock's exactly
\* when a handler or the observer answered. No later step, a mock() or a
\* clearMocks() among them, changes whether a request in flight was mocked or
\* what the mock answered; its first promise is never replaced.
C29_MockDecisionAtCall ==
    [][/\ Len(flights') >= Len(flights)
       /\ \A i \in 1..Len(flights) :
             /\ flights'[i].mocked = flights[i].mocked
             /\ flights'[i].answer = flights[i].answer
             /\ flights[i].mocked =>
                   \/ flights'[i].ran # <<>>
                   \/ flights'[i].at = Settled("fulfilled", flights[i].answer)
       /\ Len(flights') > Len(flights) =>
             /\ last'.phase = "done"
             /\ flights'[Len(flights')].mocked = (IsMarker(last'.hret) \/ IsMarker(last'.oret))
             /\ \A c \in 1..Len(last'.calls) :
                   /\ hasMocks
                   /\ HandlerOf(mockMap[last'.method], last'.calls[c].key)
                         = last'.calls[c].handler
             /\ last'.observed # <<>> =>
                   <<last'.method, last'.url,
                     IF last'.method \in {"post", "put"}
                     THEN PropertyName(last'.body) ELSE NoValue>>
                      \in LeafKeys(unmockedMap')]_vars

\* a request was answered by a mock, the mocks were cleared while it was in
\* flight, and it was delivered with the mock's answer; another request went
\* to fetch, its url was registered while it was in flight, and it was
\* delivered with the response of fetch
C29_Witness ==
    \E i, j \in 1..Len(flights) :
        /\ flights[i].mocked /\ ~flights[j].mocked
        /\ flights[i].url = flights[j].url
        /\ flights[i].sent = flights[j].sent
        /\ flights[i].pipeline = <<>> /\ flights[j].pipeline = <<>>
        /\ Delivered(flights[i]) /\ Delivered(flights[j])
        /\ flights[i].ran[1].got = Settled("fulfilled", flights[i].answer)
        /\ flights[j].ran[1].got = Settled("fulfilled", FetchResponse)
        /\ i > j
        /\ ~hasMocks


(***************************************************************************)
(* C35.                                                                    *)
(***************************************************************************)
\* the request of the log went past the mocks untouched: no handler and no
\* observer was called, and fetch was
Skipped == last.calls = <<>> /\ last.observed = <<>> /\ last.fetch = 1

\* C35: after any sequence of mock(method, url, handler) with a method name in
\* any letter case, mock(requestMap) and clearMocks(), http.hasMocks is true
\* exactly when the registry holds at least one key; a request sent while the
\* registry is empty skips the interception, and one sent while it holds a key
\* does not: with an observer set, a handler or the observer is called.
C35_HasMocksIffRegistryHoldsKey ==
    /\ hasMocks <=> KeyCount > 0
    /\ (Done /\ KeyCount = 0) => Skipped
    /\ (Done /\ KeyCount > 0 /\ onUnmockedRequest) => ~Skipped

\* an empty request map was registered and the next request skipped the
\* interception, with an observer set
C35_Witness ==
    /\ Done /\ KeyCount = 0 /\ ~hasMocks /\ onUnmockedRequest /\ Skipped
    /\ requestMap = EmptyMap /\ recorded = <<>>
    /\ nreq = 1

\* a key registered from a request map alone makes the next request go through
\* the interception
C35_WitnessMap ==
    /\ Done /\ hasMocks /\ onUnmockedRequest /\ ~Skipped
    /\ requestMap # EmptyMap
    /\ KeyCount = 1


(***************************************************************************)
(* C32.                                                                    *)
(***************************************************************************)
\* the outcome the pipeline of a flight left, once the flight is past its jobs
PipelineOutcome(f) == Before(f, RecordStage(f))

\* the flight is past the stage of http.record and its pipeline left a rejection
RejectedPastRecord(f) ==
    f.pc > RecordStage(f) /\ PipelineOutcome(f).state = "rejected"

\* C32: a request whose pipeline leaves a rejected outcome (fetch failed, or a
\* job threw, and no later error job recovered) is not recorded: http.record
\* does not run, so onRecordResponse is not called and the request catcher gets
\* no entry, and the caller's continuation receives the rejection the pipeline
\* left, reason unchanged.
C32_RejectedDispatchNotRecorded ==
    \A i \in 1..Len(flights) :
        RejectedPastRecord(flights[i]) =>
           /\ flights[i].recorder = ""
           /\ \A e \in 1..Len(flights[i].ran) :
                 flights[i].ran[e].stage # RecordStage(flights[i])
           /\ requestCatcher = EmptyMap /\ recorded = <<>>
           /\ flights[i].at = PipelineOutcome(flights[i])
           /\ Delivered(flights[i]) =>
                 /\ flights[i].ran[Len(flights[i].ran)].stage = CallerStage(flights[i])
                 /\ flights[i].ran[Len(flights[i].ran)].got = PipelineOutcome(flights[i])

\* a request sent to fetch whose second job threw after the first had run, with
\* no error job after it: the caller received what the second job threw
C32_Witness ==
    \E i \in 1..Len(flights) :
        /\ Delivered(flights[i]) /\ RejectedPastRecord(flights[i])
        /\ ~flights[i].mocked
        /\ flights[i].pipeline = <<TRUE, FALSE>>
        /\ Len(flights[i].ran) = 3
        /\ flights[i].ran[3].got = Settled("rejected", ThrownBy(2))

\* a transport failure with no pipeline reached the caller unrecorded
C32_WitnessTransport ==
    \E i \in 1..Len(flights) :
        /\ Delivered(flights[i]) /\ RejectedPastRecord(flights[i])
        /\ flights[i].pipeline = <<>>
        /\ flights[i].ran[1].got = Settled("rejected", NetworkError)


(***************************************************************************)
(* C31.                                                                    *)
(***************************************************************************)
\* the request was answered by a mock whose marker has status 200 and a body
\* that was decoded
AnsweredWithDecodedBody(f) == f.mocked /\ f.status = 0 /\ f.answer.t # "undefined"

\* the continuation of requestJson()'s caller has observed the flight
DeliveredJson(f) == Delivered(f) /\ f.kind = "requestJson"

\* C31: a request answered by a mock handler with a marker [200, headers, body]
\* whose body is JSON text, made with requestJson() and no response pipeline,
\* fulfils with the JSON-decoded body: the value request() fulfils with.
C31_RequestJsonGivesDecodedBody ==
    \A i \in 1..Len(flights) :
        (DeliveredJson(flights[i]) /\ AnsweredWithDecodedBody(flights[i])
            /\ flights[i].pipeline = <<>>) =>
           /\ flights[i].ran[Len(flights[i].ran)].got =
                 Settled("fulfilled", flights[i].answer)
           /\ flights[i].ran[Len(flights[i].ran)].gave =
                 Settled("fulfilled", flights[i].answer)

\* what the code does instead: requestJson() on such a request never fulfils
\* with the decoded body; it rejects with a TypeError, or fulfils with null when
\* the decoded body is an object whose status is 204
C31_RequestJsonRejects ==
    \A i \in 1..Len(flights) :
        (DeliveredJson(flights[i]) /\ AnsweredWithDecodedBody(flights[i])
            /\ flights[i].pipeline = <<>>) =>
           \/ flights[i].ran[Len(flights[i].ran)].gave.state = "rejected"
              /\ flights[i].ran[Len(flights[i].ran)].gave.value.t
                    \in {NoProperties.t, NotAFunction.t}
           \/ /\ flights[i].ran[Len(flights[i].ran)].gave.state = "fulfilled"
              /\ flights[i].ran[Len(flights[i].ran)].gave.value.t = "null"
              /\ StatusIs204(flights[i].answer)


(***************************************************************************)
(* C33.                                                                    *)
(***************************************************************************)
\* the jobs of the default pipeline: what a request that names no pipeline runs
DefaultJobs == JobsOf(client.arrays, client.defaults.responsePipeline)

\* a function of the builder buildResponsePipeline returned is called
BuilderCall ==
    \/ \E fn \in JobFns : BuilderThen(fn)
    \/ \E fn \in JobFns : BuilderCatch(fn)
    \/ BuilderSetDefault
    \/ BuilderBuild

\* C33: the jobs of the default pipeline change only in a call of
\* setHttpDefaults: a call of then, catch, setDefault or build on a builder
\* changes neither the jobs of the defaults nor the jobs of a request that was
\* constructed with the default pipeline.
C33_DefaultPipelineOnlySetBySetHttpDefaults ==
    [][/\ DefaultJobs' # DefaultJobs =>
             \E newDefaults \in NewDefaults : SetHttpDefaults(newDefaults)
       /\ BuilderCall =>
             \A r \in 1..Len(client.requests) :
                JobsOf(client'.arrays, client.requests[r].responsePipeline)
                   = JobsOf(client.arrays, client.requests[r].responsePipeline)]_vars


(***************************************************************************)
(* C34.                                                                    *)
(***************************************************************************)
\* the method, body, headers and credentials of an options object
Descriptor(opts) ==
    [method |-> opts.method, body |-> opts.body, headers |-> opts.headers,
     credentials |-> opts.credentials]

\* C34: http(url, opts) leaves the options object of the caller as it was and
\* gives the request a descriptor of its own. Two requests constructed from the
\* same options object under the same defaults get the same headers and the
\* same pipeline; and a chainable function called on one request (post, put,
\* del, withBody, accept, withCreds) changes the method, body, headers and
\* credentials of no other request.
C34_RequestOwnsItsDescriptor ==
    /\ [](\A i, j \in 1..Len(client.requests) :
             (/\ client.requests[i].given # NoRef
              /\ client.requests[i].given = client.requests[j].given
              /\ client.requests[i].defaultsAt = client.requests[j].defaultsAt) =>
                /\ client.requests[i].headersAt = client.requests[j].headersAt
                /\ client.requests[i].jobsAt = client.requests[j].jobsAt)
    /\ [][/\ \A o \in 1..Len(client.objects) :
                Http(o) => client'.objects[o] = client.objects[o]
          /\ \A r, q \in 1..Len(client.requests) :
                (r # q /\ ChainCall(r)) =>
                   Descriptor(client'.objects[client.requests[q].opts])
                      = Descriptor(client.objects[client.requests[q].opts])]_vars

====
